---- MODULE Spec2Model ----
(***************************************************************************)
(* Model of zendesk_voice_agent.py: the utterance assembler, the           *)
(* conversation state machine, the function dispatcher with the ticketing   *)
(* backend it talks to, and the hand-off of the response to text-to-speech. *)
(*                                                                         *)
(* Text is modelled at character level: a Python str is a sequence of      *)
(* one-character strings, so that substring tests (`kw in text`) and the    *)
(* regular expressions of extract_email_from_text behave as in the source. *)
(***************************************************************************)
EXTENDS Integers, Sequences, FiniteSets, TLC

(***************************************************************************)
(* Python str helpers                                                      *)
(***************************************************************************)
UpperAlpha == <<"A","B","C","D","E","F","G","H","I","J","K","L","M",
                "N","O","P","Q","R","S","T","U","V","W","X","Y","Z">>
LowerAlpha == <<"a","b","c","d","e","f","g","h","i","j","k","l","m",
                "n","o","p","q","r","s","t","u","v","w","x","y","z">>
Digits == {"0","1","2","3","4","5","6","7","8","9"}
Letters == {UpperAlpha[i] : i \in 1..26} \cup {LowerAlpha[i] : i \in 1..26}
Whitespace == {" "}

Min(S) == CHOOSE x \in S : \A y \in S : x <= y
Max(S) == CHOOSE x \in S : \A y \in S : x >= y

\* str.lower() on one character
LowerChar(c) ==
    IF \E i \in 1..26 : UpperAlpha[i] = c
    THEN LowerAlpha[CHOOSE i \in 1..26 : UpperAlpha[i] = c]
    ELSE c

\* str.lower()
Lower(s) == [i \in 1..Len(s) |-> LowerChar(s[i])]

\* str.strip()
Strip(s) ==
    LET keep == {i \in 1..Len(s) : s[i] \notin Whitespace}
    IN  IF keep = {} THEN <<>> ELSE SubSeq(s, Min(keep), Max(keep))

\* `kw in s` for Python strings: kw occurs in s as a contiguous substring
Contains(kw, s) ==
    \E i \in 0..(Len(s) - Len(kw)) : SubSeq(s, i + 1, i + Len(kw)) = kw

\* any(keyword in s for keyword in keywords)
AnyIn(keywords, s) == \E kw \in keywords : Contains(kw, s)

\* " ".join(parts)
RECURSIVE JoinSpace(_)
JoinSpace(parts) ==
    IF parts = <<>> THEN <<>>
    ELSE IF Len(parts) = 1 THEN parts[1]
    ELSE parts[1] \o <<" ">> \o JoinSpace(Tail(parts))

\* the text of a character sequence as one string (for display and comparison)
RECURSIVE Str(_)
Str(s) == IF s = <<>> THEN "" ELSE Head(s) \o Str(Tail(s))

(***************************************************************************)
(* Keyword lists of process_with_function_calling                          *)
(***************************************************************************)
refund_keywords ==
    { <<"r","e","f","u","n","d">>,
      <<"m","o","n","e","y"," ","b","a","c","k">>,
      <<"r","e","t","u","r","n">>,
      <<"c","a","n","c","e","l">> }

escalate_keywords ==
    { <<"e","s","c","a","l","a","t","e">>,
      <<"b","i","l","l","i","n","g">> }

support_keywords ==
    { <<"a","p","p","o","i","n","t","m","e","n","t">>,
      <<"o","r","d","e","r">>,
      <<"t","i","c","k","e","t">>,
      <<"s","u","p","p","o","r","t">> }

confirmation_keywords ==
    { <<"y","e","s">>,
      <<"c","o","r","r","e","c","t">>,
      <<"r","i","g","h","t">>,
      <<"t","h","a","t","'","s"," ","r","i","g","h","t">>,
      <<"t","h","a","t"," ","i","s"," ","c","o","r","r","e","c","t">>,
      <<"c","o","n","f","i","r","m">>,
      <<"o","k","a","y">>,
      <<"o","k">> }

denial_keywords ==
    { <<"n","o">>,
      <<"w","r","o","n","g">>,
      <<"i","n","c","o","r","r","e","c","t">>,
      <<"t","h","a","t","'","s"," ","w","r","o","n","g">>,
      <<"t","h","a","t"," ","i","s"," ","w","r","o","n","g">>,
      <<"n","o","t"," ","c","o","r","r","e","c","t">>,
      <<"d","i","f","f","e","r","e","n","t">> }

simple_greetings ==
    { <<"h","e","l","l","o">>,
      <<"h","i">>,
      <<"h","e","y">>,
      <<"g","o","o","d"," ","m","o","r","n","i","n","g">>,
      <<"g","o","o","d"," ","a","f","t","e","r","n","o","o","n">>,
      <<"g","o","o","d"," ","e","v","e","n","i","n","g">> }

general_questions ==
    { <<"h","o","w"," ","a","r","e"," ","y","o","u">>,
      <<"w","h","a","t"," ","c","a","n"," ","y","o","u"," ","h","e","l","p"," ","w","i","t","h">>,
      <<"w","h","a","t"," ","c","a","n"," ","y","o","u"," ","d","o">>,
      <<"h","o","w"," ","d","o","e","s"," ","t","h","i","s"," ","w","o","r","k">> }

account_keywords ==
    { <<"m","y"," ","a","c","c","o","u","n","t">>,
      <<"m","y"," ","a","p","p","o","i","n","t","m","e","n","t">>,
      <<"m","y"," ","o","r","d","e","r">>,
      <<"m","y"," ","t","i","c","k","e","t">>,
      <<"m","y"," ","p","a","y","m","e","n","t">>,
      <<"h","o","w"," ","m","u","c","h"," ","d","i","d"," ","i"," ","p","a","y">>,
      <<"w","h","e","n"," ","i","s"," ","m","y">>,
      <<"e","s","c","a","l","a","t","e">>,
      <<"b","i","l","l","i","n","g">> }

(***************************************************************************)
(* extract_email_from_text: three regular expressions tried in order with   *)
(* re.search (leftmost match, greedy quantifiers with backtracking,         *)
(* re.IGNORECASE), then the clean-up substitutions on the matched text.     *)
(***************************************************************************)
\* [A-Za-z0-9._%+-]
LocalClass == Letters \cup Digits \cup {".", "_", "%", "+", "-"}
\* [A-Za-z0-9.-]
DomainClass == Letters \cup Digits \cup {".", "-"}
\* [A-Z|a-z]
TldClass == Letters \cup {"|"}
\* \w
WordClass == Letters \cup Digits \cup {"_"}

\* last index j >= i-1 such that t[i..j] lies in class (i-1: the run is empty)
RunEnd(t, i, class) ==
    Max({j \in (i - 1)..Len(t) : \A k \in i..j : t[k] \in class})

\* position after the longest run of whitespace starting at i (\s*)
SkipWs(t, i) == RunEnd(t, i, Whitespace) + 1

\* \b between t[i-1] and t[i]
Boundary(t, i) ==
    LET before == i - 1 >= 1 /\ i - 1 <= Len(t) /\ t[i - 1] \in WordClass
        after  == i >= 1 /\ i <= Len(t) /\ t[i] \in WordClass
    IN  before # after

\* the literal lit matches t at position i, ignoring case
LiteralAt(t, i, lit) ==
    /\ i >= 1
    /\ i + Len(lit) - 1 <= Len(t)
    /\ Lower(SubSeq(t, i, i + Len(lit) - 1)) = lit

\* [A-Z|a-z]{2,} at k, greedy, nothing required after it: its end, or 0
TldEnd(t, k) ==
    LET e == RunEnd(t, k, TldClass) IN IF e >= k + 1 THEN e ELSE 0

\* a greedy quantifier backtracking over its possible ends, longest first:
\* rest[e] is where the rest of the pattern ends when the quantifier ends at e,
\* or 0; the result is rest[e] for the first end the rest matches after, or 0
Backtrack(rest) ==
    LET matching == {e \in DOMAIN rest : rest[e] # 0}
    IN  IF matching = {} THEN 0 ELSE rest[Max(matching)]

\* \.[A-Z|a-z]{2,}\b after position d: the end of the longest match, or 0
DotTldEnd(t, d) ==
    IF d + 1 <= Len(t) /\ t[d + 1] = "."
    THEN Backtrack([e \in (d + 3)..RunEnd(t, d + 2, TldClass) |->
                       IF Boundary(t, e + 1) THEN e ELSE 0])
    ELSE 0

\* [A-Za-z0-9.-]+\.[A-Z|a-z]{2,}\b from position q: the end of the match, or 0
DomainEnd(t, q) ==
    Backtrack([d \in q..RunEnd(t, q, DomainClass) |-> DotTldEnd(t, d)])

\* r'\b[A-Za-z0-9._%+-]+@[A-Za-z0-9.-]+\.[A-Z|a-z]{2,}\b' matched at i:
\* the end of the match the backtracking engine returns, or 0
StandardEnd(t, i) ==
    IF /\ Boundary(t, i)
       /\ RunEnd(t, i, LocalClass) >= i
       /\ LiteralAt(t, RunEnd(t, i, LocalClass) + 1, <<"@">>)
    THEN DomainEnd(t, RunEnd(t, i, LocalClass) + 2)
    ELSE 0

\* \s*<lit>\s* after position r: the position after it, or 0
SeparatorEnd(t, r, lit) ==
    IF LiteralAt(t, SkipWs(t, r + 1), lit)
    THEN SkipWs(t, SkipWs(t, r + 1) + Len(lit))
    ELSE 0

\* <domain>\s*<dot>\s*[A-Z|a-z]{2,} at q, for the literal dot ("dot" or ".")
DomainTailEnd(t, q, dot) ==
    Backtrack([r \in q..RunEnd(t, q, DomainClass) |->
                  IF SeparatorEnd(t, r, dot) # 0
                  THEN TldEnd(t, SeparatorEnd(t, r, dot))
                  ELSE 0])

\* <local>\s*<at>\s*<domain>\s*<dot>\s*<tld> matched at i, for the literals
\* at ("at" or "@") and dot ("dot" or "."): the end of the match, or 0
SeparatedEnd(t, i, at, dot) ==
    Backtrack([p \in i..RunEnd(t, i, LocalClass) |->
                  IF SeparatorEnd(t, p, at) # 0
                  THEN DomainTailEnd(t, SeparatorEnd(t, p, at), dot)
                  ELSE 0])

\* r'[A-Za-z0-9._%+-]+\s*at\s*[A-Za-z0-9.-]+\s*dot\s*[A-Z|a-z]{2,}'
SpokenEnd(t, i) == SeparatedEnd(t, i, <<"a","t">>, <<"d","o","t">>)

\* r'[A-Za-z0-9._%+-]+\s*@\s*[A-Za-z0-9.-]+\s*\.\s*[A-Z|a-z]{2,}'
SpacedEnd(t, i) == SeparatedEnd(t, i, <<"@">>, <<".">>)

\* re.sub(r'\s+', '', s)
RemoveWhitespace(s) == SelectSeq(s, LAMBDA c : c \notin Whitespace)

\* re.sub(r'\b<word>\b', repl, s, flags=re.IGNORECASE), scanning from position i
RECURSIVE SubWordFrom(_, _, _, _)
SubWordFrom(s, i, word, repl) ==
    IF i > Len(s) THEN <<>>
    ELSE IF LiteralAt(s, i, word) /\ Boundary(s, i) /\ Boundary(s, i + Len(word))
         THEN repl \o SubWordFrom(s, i + Len(word), word, repl)
         ELSE <<s[i]>> \o SubWordFrom(s, i + 1, word, repl)

SubWord(s, word, repl) == SubWordFrom(s, 1, word, repl)

\* the clean-up of the matched text (lines 1386-1388)
CleanEmail(m) ==
    SubWord(SubWord(RemoveWhitespace(m), <<"a","t">>, <<"@">>),
            <<"d","o","t">>, <<".">>)

\* re.search(pattern, text): the leftmost match, <<>> when there is none;
\* ends[i] is where the pattern matched at i ends, or 0
Search(t, ends) ==
    LET starts == {i \in DOMAIN ends : ends[i] # 0}
    IN  IF starts = {} THEN <<>>
        ELSE SubSeq(t, Min(starts), ends[Min(starts)])

\* extract_email_from_text(text); None is the empty text
\* `for pattern in email_patterns: match = re.search(...); if match:`
OrNext(match, next) == IF match # <<>> THEN match ELSE next

\* the clean-up leaves the empty text empty
extract_email_from_text(text) ==
    CleanEmail(OrNext(Search(text, [i \in DOMAIN text |-> StandardEnd(text, i)]),
                      OrNext(Search(text, [i \in DOMAIN text |-> SpokenEnd(text, i)]),
                             Search(text, [i \in DOMAIN text |-> SpacedEnd(text, i)]))))

(***************************************************************************)
(* Python values.  None is a value of its own; a dict is a record (a        *)
(* function on its keys), the empty dict is <<>>, and a name that holds a   *)
(* dict or None holds NoneDict for None.                                    *)
(***************************************************************************)
None == "<None>"
NoneDict == [none |-> TRUE]

\* d.get(key, default)
Get(d, key, default) == IF key \in DOMAIN d THEN d[key] ELSE default

\* truth value of an Optional[str] and of an Optional[dict]
Truthy(v) == v # None /\ v # ""
TruthyDict(d) == d # NoneDict /\ d # <<>>

\* str(v) as an f-string interpolates it
Fmt(v) == IF v = None THEN "None" ELSE v

(***************************************************************************)
(* The ticketing backend behind ZendeskAPI: the users and the open tickets. *)
(* Each method returns its failure value (None, [], False) when the request *)
(* fails; `fail` is the set of methods whose requests fail.                 *)
(***************************************************************************)
KnownEmail == "a@b.com"
NewEmail == "x@y.com"
Emails == {KnownEmail, NewEmail}

User(email, name) ==
    [id |-> "u:" \o email, name |-> name, email |-> email,
     phone |-> None, created_at |-> "2024-01-01"]

ZendeskMethods ==
    {"get_customer_by_email", "get_open_tickets_by_email", "create_ticket",
     "add_comment_to_ticket", "create_customer"}

\* the requests of one dispatch that fail: none, or those of one method
FailureModes == {{}} \cup {{m} : m \in ZendeskMethods}

\* ZendeskAPI.get_customer_by_email: users[0] of the search, or None
get_customer_by_email(zd, fail, email) ==
    IF "get_customer_by_email" \notin fail /\ \E u \in zd.users : u.email = email
    THEN CHOOSE u \in zd.users : u.email = email
    ELSE NoneDict

\* ZendeskAPI.get_open_tickets_by_email: the open tickets of the requester
get_open_tickets_by_email(zd, fail, email) ==
    IF "get_open_tickets_by_email" \in fail THEN <<>>
    ELSE SelectSeq(zd.tickets, LAMBDA tk : tk.requester = email)

\* ZendeskAPI.create_ticket: [id |-> the new ticket's id or None, zd |-> backend]
create_ticket(zd, fail, subject, comment, requester_email, tags, priority) ==
    IF "create_ticket" \in fail THEN [id |-> None, zd |-> zd]
    ELSE LET id == ToString(Len(zd.tickets) + 1)
         IN  [id |-> id,
              zd |-> [zd EXCEPT !.tickets =
                         Append(@, [id |-> id, requester |-> requester_email,
                                    subject |-> subject, description |-> comment,
                                    tags |-> tags, priority |-> priority,
                                    comments |-> <<>>])]]

\* ZendeskAPI.add_comment_to_ticket: [ok |-> whether the comment was stored,
\* zd |-> backend]; `comments` of a ticket are those added after its creation
add_comment_to_ticket(zd, fail, ticket_id, comment, public) ==
    IF /\ "add_comment_to_ticket" \notin fail
       /\ \E i \in 1..Len(zd.tickets) : zd.tickets[i].id = ticket_id
    THEN [ok |-> TRUE,
          zd |-> [zd EXCEPT !.tickets =
                     [i \in DOMAIN @ |->
                        IF @[i].id = ticket_id
                        THEN [@[i] EXCEPT !.comments =
                                 Append(@, [body |-> comment, public |-> public])]
                        ELSE @[i]]]]
    ELSE [ok |-> FALSE, zd |-> zd]

\* ZendeskAPI.create_customer: [user |-> the new user or None, zd |-> backend]
create_customer(zd, fail, email) ==
    IF "create_customer" \in fail \/ \E u \in zd.users : u.email = email
    THEN [user |-> NoneDict, zd |-> zd]
    ELSE LET u == User(email, "Customer")
         IN  [user |-> u, zd |-> [zd EXCEPT !.users = @ \cup {u}]]


(***************************************************************************)
(* execute_zendesk_function: the six operations, each returning the result  *)
(* dict and the backend it leaves.  An unknown name is an error result.     *)
(***************************************************************************)
appointment_keywords ==
    { <<"a","p","p","o","i","n","t","m","e","n","t">>,
      <<"m","e","e","t","i","n","g">>,
      <<"s","c","h","e","d","u","l","e">>,
      <<"b","o","o","k","i","n","g">>,
      <<"c","a","l","l">>,
      <<"e","v","i","s","a">>,
      <<"v","i","s","a">> }

order_keywords ==
    { <<"o","r","d","e","r">>,
      <<"p","u","r","c","h","a","s","e">>,
      <<"p","a","y","m","e","n","t">>,
      <<"i","n","v","o","i","c","e">> }

BillingEscalationSubject == <<"B","i","l","l","i","n","g"," ","E","s","c","a","l","a","t","i","o","n"," ","R","e","q","u","e","s","t">>
EscalationPrefix == <<"E","s","c","a","l","a","t","i","o","n"," ","t","o"," ","b","i","l","l","i","n","g",":"," ">>

MsgNoteAdded == "Your request has been added to your existing ticket."
MsgSubmitted == "Your request has been submitted successfully."
MsgAccountCreated ==
    "Great! I've created your account and submitted your request. Our team will review it and get back to you soon."
MsgEscalated ==
    "Your request has been escalated to our billing department. They will review your case and contact you within 24 hours."

ExecGetCustomerInfo(arguments, zd, fail) ==
    LET email == Get(arguments, "email", None)
        customer == get_customer_by_email(zd, fail, email)
    IN  IF ~Truthy(email) THEN [result |-> [error |-> "Email is required"], zd |-> zd]
        ELSE IF TruthyDict(customer)
        THEN [result |-> [success |-> TRUE,
                          customer |-> [id |-> Get(customer, "id", None),
                                        name |-> Get(customer, "name", None),
                                        email |-> Get(customer, "email", None),
                                        phone |-> Get(customer, "phone", None),
                                        created_at |-> Get(customer, "created_at", None)]],
              zd |-> zd]
        ELSE [result |-> [success |-> FALSE, error |-> "Customer not found"], zd |-> zd]

ExecSearchCustomerTickets(arguments, zd, fail) ==
    LET email == Get(arguments, "email", None)
        search_type == Get(arguments, "search_type", "all")
        tickets == get_open_tickets_by_email(zd, fail, email)
        IsAppointment(tk) ==
            \/ AnyIn(appointment_keywords, Lower(tk.subject))
            \/ AnyIn(appointment_keywords, Lower(tk.description))
        IsOrder(tk) == AnyIn(order_keywords, Lower(tk.subject))
    IN  IF ~Truthy(email) THEN [result |-> [error |-> "Email is required"], zd |-> zd]
        ELSE IF search_type = "appointments"
        THEN [result |-> [success |-> TRUE, appointments |-> SelectSeq(tickets, IsAppointment)],
              zd |-> zd]
        ELSE IF search_type = "orders"
        THEN [result |-> [success |-> TRUE, orders |-> SelectSeq(tickets, IsOrder)], zd |-> zd]
        ELSE [result |-> [success |-> TRUE, tickets |-> tickets], zd |-> zd]

ExecCreateSupportTicket(arguments, zd, fail) ==
    LET email == Get(arguments, "email", None)
        subject == Get(arguments, "subject", <<>>)
        description == Get(arguments, "description", <<>>)
        priority == Get(arguments, "priority", "normal")
        customer == get_customer_by_email(zd, fail, email)
        open_tickets == get_open_tickets_by_email(zd, fail, email)
        ticket_id == open_tickets[1].id
        created == create_ticket(zd, fail, subject, description, email,
                                 <<"voice_chat", "support">>, priority)
        noted == add_comment_to_ticket(zd, fail, ticket_id, description, FALSE)
    IN  IF ~(Truthy(email) /\ subject # <<>> /\ description # <<>>)
        THEN [result |-> [error |-> "Email, subject, and description are required"], zd |-> zd]
        ELSE IF ~TruthyDict(customer)
        THEN [result |-> [error |-> "Customer not found", needs_confirmation |-> TRUE,
                          email |-> email],
              zd |-> zd]
        ELSE IF open_tickets # <<>>
        THEN IF noted.ok
             THEN [result |-> [success |-> TRUE, action |-> "note_added",
                               ticket_id |-> ticket_id, message |-> MsgNoteAdded],
                   zd |-> noted.zd]
             ELSE [result |-> [error |-> "Failed to add note to existing ticket"], zd |-> zd]
        ELSE IF Truthy(created.id)
        THEN [result |-> [success |-> TRUE, action |-> "ticket_created",
                          ticket_id |-> created.id, message |-> MsgSubmitted],
              zd |-> created.zd]
        ELSE [result |-> [error |-> "Failed to create ticket"], zd |-> zd]

ExecConfirmEmailAndCreateTicket(arguments, zd, fail) ==
    LET email == Get(arguments, "email", None)
        subject == Get(arguments, "subject", <<>>)
        description == Get(arguments, "description", <<>>)
        priority == Get(arguments, "priority", "normal")
        made == create_customer(zd, fail, email)
        created == create_ticket(made.zd, fail, subject, description, email,
                                 <<"voice_chat", "support", "new_customer">>, priority)
    IN  IF ~(Truthy(email) /\ subject # <<>> /\ description # <<>>)
        THEN [result |-> [error |-> "Email, subject, and description are required"], zd |-> zd]
        ELSE IF ~TruthyDict(made.user)
        THEN [result |-> [error |-> "Failed to create customer account"], zd |-> zd]
        ELSE IF Truthy(created.id)
        THEN [result |-> [success |-> TRUE, action |-> "customer_and_ticket_created",
                          ticket_id |-> created.id, customer_id |-> made.user.id,
                          message |-> MsgAccountCreated],
              zd |-> created.zd]
        ELSE [result |-> [error |-> "Failed to create ticket"], zd |-> made.zd]

ExecAddCommentToTicket(arguments, zd, fail) ==
    LET ticket_id == Get(arguments, "ticket_id", None)
        comment == Get(arguments, "comment", <<>>)
        public == Get(arguments, "public", TRUE)
        added == add_comment_to_ticket(zd, fail, ticket_id, comment, public)
    IN  IF ~(Truthy(ticket_id) /\ comment # <<>>)
        THEN [result |-> [error |-> "Ticket ID and comment are required"], zd |-> zd]
        ELSE IF added.ok
        THEN [result |-> [success |-> TRUE,
                          message |-> "Comment added to ticket #" \o ticket_id],
              zd |-> added.zd]
        ELSE [result |-> [error |-> "Failed to add comment"], zd |-> zd]

ExecEscalateToBilling(arguments, zd, fail) ==
    LET email == Get(arguments, "email", None)
        reason == Get(arguments, "reason", <<>>)
        priority == Get(arguments, "priority", "normal")
        customer == get_customer_by_email(zd, fail, email)
        open_tickets == get_open_tickets_by_email(zd, fail, email)
        note == EscalationPrefix \o reason
        created == create_ticket(zd, fail, BillingEscalationSubject, note, email,
                                 <<"voice_chat", "support", "escalation">>, priority)
    IN  IF ~(Truthy(email) /\ reason # <<>>)
        THEN [result |-> [error |-> "Email and reason are required"], zd |-> zd]
        ELSE IF ~TruthyDict(customer)
        THEN [result |-> [error |-> "Customer not found for escalation"], zd |-> zd]
        ELSE IF open_tickets # <<>>
        THEN IF add_comment_to_ticket(zd, fail, open_tickets[1].id, note, FALSE).ok
             THEN [result |-> [success |-> TRUE, message |-> MsgEscalated],
                   zd |-> add_comment_to_ticket(zd, fail, open_tickets[1].id, note,
                                                FALSE).zd]
             ELSE [result |-> [error |-> "Failed to add escalation note to ticket"], zd |-> zd]
        ELSE IF Truthy(created.id)
        THEN [result |-> [success |-> TRUE, message |-> MsgEscalated], zd |-> created.zd]
        ELSE [result |-> [error |-> "Failed to create ticket for escalation"], zd |-> zd]

execute_zendesk_function(function_name, arguments, zd, fail) ==
    CASE function_name = "get_customer_info" -> ExecGetCustomerInfo(arguments, zd, fail)
      [] function_name = "search_customer_tickets" -> ExecSearchCustomerTickets(arguments, zd, fail)
      [] function_name = "create_support_ticket" -> ExecCreateSupportTicket(arguments, zd, fail)
      [] function_name = "confirm_email_and_create_ticket" ->
            ExecConfirmEmailAndCreateTicket(arguments, zd, fail)
      [] function_name = "add_comment_to_ticket" -> ExecAddCommentToTicket(arguments, zd, fail)
      [] function_name = "escalate_to_billing" -> ExecEscalateToBilling(arguments, zd, fail)
      [] OTHER -> [result |-> [error |-> "Unknown function: " \o function_name], zd |-> zd]


(***************************************************************************)
(* Bounds of the model                                                     *)
(***************************************************************************)
\* utterances forwarded to the conversation state machine in one run
MaxTurns == 3
\* utterances forwarded in one run of a long conversation
MaxLongTurns == 7
\* PCM chunks one synthesized response is queued as
MaxChunks == 1
\* open tickets the backend holds
MaxTickets == 1
\* open tickets of the customer whose tickets are searched
MaxOpenTickets == 2
\* utterances forwarded in one run of the threads
MaxThreadTurns == 2
\* PCM chunks one response is queued as in a run of the threads
MaxSpokenChunks == 2

\* len(conversation_history) > 12 (line 1044)
HistoryLimit == 12
\* conversation_history[-4:] (lines 547, 631)
RecentWindow == 4
\* len(conversation_history) > 2 (line 624)
ContextThreshold == 2

(***************************************************************************)
(* The language model.  A reply either raises or is a text, given line by   *)
(* line: a line of prose, a line that is one JSON object (text and parsed   *)
(* value), or prose with a flat JSON object inside it.                      *)
(***************************************************************************)
Prose(text) == [kind |-> "prose", text |-> text]
JsonLine(text, obj) == [kind |-> "json", text |-> text, obj |-> obj]
InlineJson(text, obj) == [kind |-> "inline", text |-> text, obj |-> obj]

Raises == [raises |-> TRUE, lines |-> <<>>]
Says(lines) == [raises |-> FALSE, lines |-> lines]
Call(function_name, arguments) ==
    Says(<<JsonLine("{\"function\": \"" \o function_name \o "\", \"arguments\": {...}}",
                    [function |-> function_name, arguments |-> arguments])>>)

TicketSubject == <<"R","e","s","c","h","e","d","u","l","e">>
TicketDescription == <<"C","u","s","t","o","m","e","r"," ","a","s","k","s"," ","t","o"," ","r","e","s","c","h","e","d","u","l","e">>
EscalationReason == <<"R","e","f","u","n","d"," ","r","e","q","u","e","s","t","e","d">>
CommentText == <<"C","u","s","t","o","m","e","r"," ","c","a","l","l","e","d"," ","a","g","a","i","n">>

DirectAnswer == "Sure, I can help you with that."

\* `text` written `times` times
RECURSIVE Repeat(_, _)
Repeat(text, times) == IF times = 0 THEN "" ELSE text \o Repeat(text, times - 1)

\* an answer of 18 * 28 + 8 = 512 characters
LongAnswer == Repeat("Thank you for your patience. ", 18) \o "Goodbye."

\* the replies the model draws from
LLMReplies ==
    { Raises,
      Says(<<Prose(DirectAnswer)>>),
      Says(<<Prose(LongAnswer)>>),
      Says(<<>>),
      Call("get_customer_info", [email |-> KnownEmail]),
      Call("get_customer_info", [email |-> NewEmail]),
      Call("search_customer_tickets", [email |-> KnownEmail, search_type |-> "all"]),
      Call("create_support_ticket",
           [email |-> NewEmail, subject |-> TicketSubject, description |-> TicketDescription]),
      Call("create_support_ticket",
           [email |-> KnownEmail, subject |-> TicketSubject,
            description |-> TicketDescription]),
      Call("create_support_ticket",
           [subject |-> TicketSubject, description |-> TicketDescription]),
      Call("confirm_email_and_create_ticket",
           [email |-> NewEmail, subject |-> TicketSubject, description |-> TicketDescription]),
      Call("add_comment_to_ticket", [ticket_id |-> "1", comment |-> CommentText]),
      Call("escalate_to_billing", [email |-> KnownEmail, reason |-> EscalationReason]),
      Call("escalate_to_billing", [reason |-> EscalationReason]),
      Call("get_customer_info", <<>>),
      Call("create_support_ticket", <<>>),
      Says(<<Prose("Let me check."),
             InlineJson("I will call {\"function\": \"get_customer_info\"} now.",
                        [function |-> "get_customer_info"])>>) }

\* "\n".join(lines)
RECURSIVE JoinLines(_)
JoinLines(lines) ==
    IF lines = <<>> THEN ""
    ELSE IF Len(lines) = 1 THEN lines[1].text
    ELSE lines[1].text \o "\n" \o JoinLines(Tail(lines))

\* response.text.strip() of a reply that did not raise
ResponseText(reply) == JoinLines(reply.lines)

\* lines 778-809: the last line that is a JSON object with a "function" key;
\* failing that, the last flat {..."function"...} object the regular expression
\* finds in the text.  NoneDict when neither finds one.
FindFunctionCall(reply) ==
    LET lines == reply.lines
        whole == {i \in 1..Len(lines) :
                    lines[i].kind = "json" /\ "function" \in DOMAIN lines[i].obj}
        inner == {i \in 1..Len(lines) :
                    lines[i].kind = "inline" /\ "function" \in DOMAIN lines[i].obj}
    IN  IF whole # {} THEN lines[Max(whole)].obj
        ELSE IF inner # {} THEN lines[Max(inner)].obj
        ELSE NoneDict


(***************************************************************************)
(* What the caller says: each utterance is the sequence of final segments   *)
(* the transcription service delivers for it.                               *)
(***************************************************************************)
SayRefund ==
    <<<<"I"," ","n","e","e","d"," ","h","e","l","p"," ","w","i","t","h"," ","a"," ","r","e","f","u","n","d">>>>
SayEmail ==
    <<<<"M","y"," ","e","m","a","i","l"," ","i","s"," ","a","@","b",".","c","o","m">>>>
SayYes ==
    <<<<"Y","e","s"," ","t","h","a","t","'","s"," ","r","i","g","h","t">>>>
SayNo ==
    <<<<"N","o"," ","t","h","a","t","'","s"," ","w","r","o","n","g">>>>
SayHello ==
    <<<<"H","e","l","l","o">>>>
SayEscalate ==
    <<<<"E","s","c","a","l","a","t","e"," ","t","o"," ","b","i","l","l","i","n","g">>>>
SayMore ==
    <<<<"T","e","l","l"," ","m","e"," ","m","o","r","e">>>>
SayCancelOrder ==
    <<<<"P","l","e","a","s","e"," ","c","a","n","c","e","l">>,
      <<"m","y"," ","o","r","d","e","r"," ">>>>
Utterances ==
    {SayRefund, SayEmail, SayYes, SayNo, SayHello, SayEscalate, SayMore, SayCancelOrder}

\* the final segments that can follow the buffered ones
NextSegments(buffer) ==
    {u[Len(buffer) + 1] : u \in {v \in Utterances :
                                   /\ Len(v) > Len(buffer)
                                   /\ SubSeq(v, 1, Len(buffer)) = buffer}}

\* what the caller can answer while a confirmation is awaited: each denial
\* keyword on its own, a denial that gives the right address at once, a
\* confirmation, and an answer that is neither
SayNoEmail ==
    <<<<"N","o"," ","m","y"," ","e","m","a","i","l"," ","i","s"," ","x","@","y",".","c","o","m">>>>
DenialUtterances == { <<keyword>> : keyword \in denial_keywords }
ConfirmUtterances == DenialUtterances \cup {SayNoEmail, SayYes, SayMore}

\* the final segments of `utterances` that can follow the buffered ones
SegmentsAfter(utterances, buffer) ==
    {u[Len(buffer) + 1] : u \in {v \in utterances :
                                   /\ Len(v) > Len(buffer)
                                   /\ SubSeq(v, 1, Len(buffer)) = buffer}}

\* every text an UtteranceEnd can find buffered
Transcripts ==
    UNION { {Strip(JoinSpace(SubSeq(u, 1, n))) : n \in 1..Len(u)}
            : u \in Utterances \cup ConfirmUtterances }

\* what process_with_function_calling computes from the transcript alone:
\* the extracted email (line 657) and the keyword tests (lines 665-672, 683,
\* 703, 725, 737, 748)
Reading(text) ==
    LET transcript_lower == Strip(Lower(text))
    IN  [extracted_email |-> extract_email_from_text(text),
         refund |-> AnyIn(refund_keywords, transcript_lower),
         escalate |-> AnyIn(escalate_keywords, transcript_lower),
         support |-> AnyIn(support_keywords, transcript_lower),
         confirmation |-> AnyIn(confirmation_keywords, transcript_lower),
         denial |-> AnyIn(denial_keywords, transcript_lower),
         greeting |-> AnyIn(simple_greetings, transcript_lower),
         general_question |-> AnyIn(general_questions, transcript_lower),
         account |-> AnyIn(account_keywords, transcript_lower)]

\* Reading, computed once for each transcript
ReadingOf == [text \in Transcripts |-> Reading(text)]

(***************************************************************************)
(* The session: the module's global variables, gathered in one record `s`   *)
(* while a turn is computed.  s.zd is the ticketing backend; s.dispatched,  *)
(* s.llm_calls and s.llm_reply record what the turn did.                    *)
(*                                                                         *)
(* A message of conversation_history keeps its role, the sequence number of *)
(* the utterance whose turn appended it, and of its content only whether it *)
(* is None: the program reads no more of a stored content than that (the    *)
(* rest goes into the prompt, and the reply is not a function of the        *)
(* prompt here).                                                            *)
(***************************************************************************)
IsText == "<str>"
Message(role, seq, content) ==
    [role |-> role, seq |-> seq, content |-> IF content = None THEN None ELSE IsText]

NoReply == [raises |-> FALSE, lines |-> <<Prose("<no call>")>>]

\* conversation_history.append({"role": "user", ...}); .append({"role": "assistant", ...})
AppendTurn(s, seq, response_text) ==
    [s EXCEPT !.conversation_history =
        @ \o <<Message("user", seq, IsText), Message("assistant", seq, response_text)>>]

\* `return response_text` of process_with_function_calling after both appends
Respond(s, seq, response_text) ==
    [s |-> AppendTurn(s, seq, response_text), response_text |-> response_text,
     raised |-> FALSE]

\* await execute_zendesk_function(...) for each way its requests can fail
Dispatched(s, function_name, arguments, r) ==
    [s |-> [s EXCEPT !.zd = r.zd,
                     !.dispatched = Append(@, [function |-> function_name,
                                               arguments |-> arguments,
                                               result |-> r.result])],
     result |-> r.result]

Dispatch(s, function_name, arguments) ==
    { Dispatched(s, function_name, arguments,
                 execute_zendesk_function(function_name, arguments, s.zd, fail))
      : fail \in FailureModes }

MsgAskEmail ==
    "I'll need your email address to help you with that. Could you please provide your email address?"
MsgAskCorrectEmail == "I understand. Could you please provide the correct email address?"
MsgRepromptYesNo ==
    "I didn't catch that. Could you please confirm if that email address is correct? Just say 'yes' or 'no'."
MsgGreeting ==
    "Hello! I'm your customer service assistant. I can help you with account information, appointments, orders, and support requests. How can I assist you today?"
MsgGeneralKnown ==
    "Since I have your account information, I can help you with your appointments, orders, payments, and support requests. What would you like to know?"
MsgGeneral ==
    "I can help you with your account information, check appointments and orders, create support tickets, and answer questions about your services. What would you like to know?"
MsgLLMTrouble ==
    "I'm sorry, I'm having trouble processing your request right now. Please try again."
MsgRepeat == "I'm sorry, I didn't catch that. Could you please repeat?"
MsgEscalatedAnyway ==
    "I've escalated your request to our billing department. They will review your case and contact you within 24 hours."

Apology(error_msg) ==
    "I'm sorry, but I encountered an issue: " \o Fmt(error_msg)
        \o ". Please try again or contact support directly."
MsgGreetingKnown(name) ==
    "Hello " \o Fmt(name)
        \o "! I'm here to help. What would you like to know about your account or appointments?"
MsgWelcomeBack(name) ==
    "Great! I found your account. Welcome back, " \o Fmt(name) \o ". How can I help you today?"
MsgNoAccount(email, purpose) ==
    "I don't see any account details using the email " \o Fmt(email)
        \o ". Could you please check and provide me with the correct email address so I can "
        \o purpose \o "?"
MsgConfirmEmail(email) ==
    "I don't see an account with the email " \o Fmt(email)
        \o ". Is this email address correct? Please confirm by saying 'yes' or 'no'."

\* an extraction that takes the address heard for the customer's record
TrackEmailAsIdentity(s, extracted_email) ==
    IF extracted_email # <<>>
    THEN [s EXCEPT !.customer_email = Str(extracted_email),
                   !.customer_data = [email |-> Str(extracted_email)]]
    ELSE s

\* lines 656-662: a later extraction overwrites the session email
TrackEmail(s, extracted_email) ==
    IF extracted_email # <<>>
    THEN [s EXCEPT !.customer_email = Str(extracted_email)]
    ELSE s

\* a tracking of the intent that looks for the support keywords first
TrackIntentSupportFirst(s, transcript, said) ==
    IF said.support
    THEN [s EXCEPT !.last_intent = "support", !.last_intent_details = transcript]
    ELSE IF said.escalate
    THEN [s EXCEPT !.last_intent = "escalate", !.last_intent_details = transcript]
    ELSE IF said.refund
    THEN [s EXCEPT !.last_intent = "refund", !.last_intent_details = transcript]
    ELSE s

\* lines 664-675: the sticky intent
TrackIntent(s, transcript, said) ==
    IF said.refund
    THEN [s EXCEPT !.last_intent = "refund", !.last_intent_details = transcript]
    ELSE IF said.escalate
    THEN [s EXCEPT !.last_intent = "escalate", !.last_intent_details = transcript]
    ELSE IF said.support
    THEN [s EXCEPT !.last_intent = "support", !.last_intent_details = transcript]
    ELSE s

\* a confirmation flow that keeps the pending request when the dispatch fails
ConfirmationFlowKeepingRequest(s, seq, said) ==
    IF said.confirmation
    THEN { Respond(IF Get(d.result, "success", FALSE)
                   THEN [d.s EXCEPT !.pending_ticket_request = NoneDict]
                   ELSE [d.s EXCEPT !.email_confirmation_pending = TRUE],
                   seq,
                   IF Get(d.result, "success", FALSE)
                   THEN Get(d.result, "message", MsgSubmitted)
                   ELSE Apology(Get(d.result, "error", "Unknown error")))
           : d \in Dispatch([s EXCEPT !.email_confirmation_pending = FALSE],
                            "confirm_email_and_create_ticket",
                            s.pending_ticket_request) }
    ELSE IF said.denial
    THEN { Respond([s EXCEPT !.email_confirmation_pending = FALSE,
                             !.pending_ticket_request = NoneDict,
                             !.customer_email = None],
                   seq, MsgAskCorrectEmail) }
    ELSE { Respond(s, seq, MsgRepromptYesNo) }

\* a confirmation flow whose denial leaves the session email
ConfirmationFlowKeepingEmail(s, seq, said) ==
    IF said.confirmation
    THEN { Respond([d.s EXCEPT !.pending_ticket_request = NoneDict], seq,
                   IF Get(d.result, "success", FALSE)
                   THEN Get(d.result, "message", MsgSubmitted)
                   ELSE Apology(Get(d.result, "error", "Unknown error")))
           : d \in Dispatch([s EXCEPT !.email_confirmation_pending = FALSE],
                            "confirm_email_and_create_ticket",
                            s.pending_ticket_request) }
    ELSE IF said.denial
    THEN { Respond([s EXCEPT !.email_confirmation_pending = FALSE,
                             !.pending_ticket_request = NoneDict],
                   seq, MsgAskCorrectEmail) }
    ELSE { Respond(s, seq, MsgRepromptYesNo) }

\* a confirmation flow whose denial drops the request and leaves the flag
ConfirmationFlowLeavingFlag(s, seq, said) ==
    IF said.confirmation
    THEN { Respond([d.s EXCEPT !.pending_ticket_request = NoneDict], seq,
                   IF Get(d.result, "success", FALSE)
                   THEN Get(d.result, "message", MsgSubmitted)
                   ELSE Apology(Get(d.result, "error", "Unknown error")))
           : d \in Dispatch([s EXCEPT !.email_confirmation_pending = FALSE],
                            "confirm_email_and_create_ticket",
                            s.pending_ticket_request) }
    ELSE IF said.denial
    THEN { Respond([s EXCEPT !.pending_ticket_request = NoneDict,
                             !.customer_email = None],
                   seq, MsgAskCorrectEmail) }
    ELSE { Respond(s, seq, MsgRepromptYesNo) }

\* lines 677-719: the email confirmation flow
ConfirmationFlow(s, seq, said) ==
    IF said.confirmation
    THEN { Respond([d.s EXCEPT !.pending_ticket_request = NoneDict], seq,
                   IF Get(d.result, "success", FALSE)
                   THEN Get(d.result, "message", MsgSubmitted)
                   ELSE Apology(Get(d.result, "error", "Unknown error")))
           : d \in Dispatch([s EXCEPT !.email_confirmation_pending = FALSE],
                            "confirm_email_and_create_ticket",
                            s.pending_ticket_request) }
    ELSE IF said.denial
    THEN { Respond([s EXCEPT !.email_confirmation_pending = FALSE,
                             !.pending_ticket_request = NoneDict,
                             !.customer_email = None],
                   seq, MsgAskCorrectEmail) }
    ELSE { Respond(s, seq, MsgRepromptYesNo) }

\* the month names of the date pattern, lower case (re.IGNORECASE)
Months ==
    { <<"j","a","n","u","a","r","y">>,
      <<"f","e","b","r","u","a","r","y">>,
      <<"m","a","r","c","h">>,
      <<"a","p","r","i","l">>,
      <<"m","a","y">>,
      <<"j","u","n","e">>,
      <<"j","u","l","y">>,
      <<"a","u","g","u","s","t">>,
      <<"s","e","p","t","e","m","b","e","r">>,
      <<"o","c","t","o","b","e","r">>,
      <<"n","o","v","e","m","b","e","r">>,
      <<"d","e","c","e","m","b","e","r">> }

FirstNonZero(a, b) == IF a # 0 THEN a ELSE b

\* \s+\d{4} at y: the end of the match, or 0
YearEnd(t, y) ==
    IF SkipWs(t, y) > y /\ RunEnd(t, SkipWs(t, y), Digits) >= SkipWs(t, y) + 3
    THEN SkipWs(t, y) + 3
    ELSE 0

\* (?:January|...|December)\s+\d{4} at m: the end of the match, or 0
MonthYearEnd(t, m) ==
    LET named == {month \in Months : LiteralAt(t, m, month)}
    IN  IF named = {} THEN 0 ELSE YearEnd(t, m + Len(CHOOSE month \in named : TRUE))

\* the date pattern at i with n leading digits
DateEndWith(t, i, n) ==
    IF RunEnd(t, i, Digits) >= i + n - 1 /\ SkipWs(t, i + n) > i + n
    THEN MonthYearEnd(t, SkipWs(t, i + n))
    ELSE 0

\* r'(\d{1,2}\s+(?:January|...|December)\s+\d{4})' at i: two digits are tried first
DateEnd(t, i) == FirstNonZero(DateEndWith(t, i, 2), DateEndWith(t, i, 1))

\* r'(\d+)\s*USD' at i (case matters): the end of group 1, or 0
AmountEnd(t, i) ==
    IF /\ RunEnd(t, i, Digits) >= i
       /\ SubSeq(t, SkipWs(t, RunEnd(t, i, Digits) + 1),
                 SkipWs(t, RunEnd(t, i, Digits) + 1) + 2) = <<"U","S","D">>
    THEN RunEnd(t, i, Digits)
    ELSE 0

\* <label>\s*-\s* at i: the position after it, or 0
LabelEnd(t, i, label) ==
    IF /\ LiteralAt(t, i, label)
       /\ LiteralAt(t, SkipWs(t, i + Len(label)), <<"-">>)
    THEN SkipWs(t, SkipWs(t, i + Len(label)) + 1)
    ELSE 0

\* where the group of <label>\s*-\s*(<class>+) starts when the pattern
\* matches at i, or 0
LabeledStart(t, i, label, class) ==
    LET g == LabelEnd(t, i, label)
    IN  IF g = 0 THEN 0
        ELSE IF g <= Len(t) /\ t[g] \in class THEN g
        \* \s* gives back its last character to the group
        ELSE IF g - 1 >= 1 /\ t[g - 1] \in Whitespace \cap class THEN g - 1
        ELSE 0

\* group 1 of re.search(r'<label>\s*-\s*(<class>+)', t, re.IGNORECASE), or <<>>
LabeledGroup(t, label, class) ==
    LET starts == {i \in DOMAIN t : LabeledStart(t, i, label, class) # 0}
    IN  IF starts = {} THEN <<>>
        ELSE SubSeq(t, LabeledStart(t, Min(starts), label, class),
                    RunEnd(t, LabeledStart(t, Min(starts), label, class), class))

\* \S and [\w\s] among the characters of t
NonSpace(t) == {t[k] : k \in DOMAIN t} \ Whitespace
WordOrSpace == WordClass \cup Whitespace

\* group 1 of re.search(r'(\d+)\s*USD', description), or <<>>
AmountPaid(description) ==
    LET starts == {i \in 1..Len(description) : AmountEnd(description, i) # 0}
    IN  IF starts = {} THEN <<>>
        ELSE SubSeq(description, Min(starts), AmountEnd(description, Min(starts)))

SubjectOf(item) == IF "subject" \in DOMAIN item THEN Str(item.subject) ELSE "No subject"
DescriptionOf(item) == IF "description" \in DOMAIN item THEN item.description ELSE <<>>

\* `for x in items[:3]: response_text += ...`, texts[i] the text of item i
FirstThree(texts) ==
    (IF Len(texts) >= 1 THEN texts[1] ELSE "")
        \o (IF Len(texts) >= 2 THEN texts[2] ELSE "")
        \o (IF Len(texts) >= 3 THEN texts[3] ELSE "")

\* `if match: response_text += f"<before>{match.group(1)}<after>"`
WhenFound(found, before, after) ==
    IF found # <<>> THEN before \o Str(found) \o after ELSE ""

\* group 1 of the date pattern in the description, or <<>>
DateIn(description) ==
    Search(description, [i \in DOMAIN description |-> DateEnd(description, i)])

\* lines 903-918
AppointmentText(appt) ==
    (IF DateIn(DescriptionOf(appt)) # <<>>
     THEN WhenFound(DateIn(DescriptionOf(appt)),
                    "Your " \o SubjectOf(appt) \o " appointment is scheduled for ", ". ")
     ELSE "Appointment: " \o SubjectOf(appt) \o ". ")
        \o (IF Contains(<<"p","a","i","d">>, Lower(DescriptionOf(appt)))
            THEN WhenFound(AmountPaid(DescriptionOf(appt)), "You paid ", " USD for this service. ")
            ELSE "")
        \o "Details: " \o Str(DescriptionOf(appt)) \o " "

\* lines 928-940
OrderText(order) ==
    "Order #" \o order.id \o ": " \o SubjectOf(order) \o ". "
        \o WhenFound(LabeledGroup(DescriptionOf(order), <<"i","n","v","o","i","c","e">>,
                                  NonSpace(DescriptionOf(order))),
                     "Invoice: ", ". ")
        \o WhenFound(LabeledGroup(DescriptionOf(order), <<"p","r","o","d","u","c","t">>,
                                  WordOrSpace),
                     "Product: ", ". ")
        \o "Details: " \o Str(DescriptionOf(order)) \o " "

\* lines 949-954
TicketText(ticket) ==
    "Ticket #" \o ticket.id \o ": " \o SubjectOf(ticket) \o ". "
        \o "Details: " \o Str(DescriptionOf(ticket)) \o " "

\* lines 896-956: the sentence for a successful search_customer_tickets
RenderSearch(result) ==
    IF "appointments" \in DOMAIN result
    THEN IF result.appointments # <<>>
         THEN "I found " \o ToString(Len(result.appointments)) \o " appointment(s) for you. "
                  \o FirstThree([i \in DOMAIN result.appointments |->
                                    AppointmentText(result.appointments[i])])
                  \o "Would you like me to help you reschedule this appointment?"
         ELSE "I don't see any appointments scheduled for you at the moment."
    ELSE IF "orders" \in DOMAIN result
    THEN IF result.orders # <<>>
         THEN "I found " \o ToString(Len(result.orders)) \o " order(s) for you. "
                  \o FirstThree([i \in DOMAIN result.orders |-> OrderText(result.orders[i])])
         ELSE "I don't see any orders in your account at the moment."
    ELSE IF Get(result, "tickets", <<>>) # <<>>
         THEN "I found " \o ToString(Len(result.tickets)) \o " ticket(s) for you. "
                  \o FirstThree([i \in DOMAIN result.tickets |-> TicketText(result.tickets[i])])
         ELSE "I don't see any open tickets for you at the moment."

\* lines 891-990: the sentence for the result of the default dispatch
RenderResult(function_name, result) ==
    IF Get(result, "success", FALSE)
    THEN CASE function_name = "get_customer_info" -> MsgWelcomeBack(result.customer.name)
           [] function_name = "search_customer_tickets" -> RenderSearch(result)
           [] function_name \in {"create_support_ticket", "confirm_email_and_create_ticket"} ->
                 "Perfect! " \o Fmt(Get(result, "message", None))
                     \o " Our team will review your request and get back to you soon."
           [] function_name = "add_comment_to_ticket" ->
                 "Great! " \o Fmt(Get(result, "message", None))
                     \o ". Your information has been added to the ticket."
           [] function_name = "escalate_to_billing" -> Get(result, "message", None)
           [] OTHER -> Apology(Get(result, "error", "Unknown error occurred"))
    ELSE Apology(Get(result, "error", "Unknown error occurred"))

\* a handler of the exception that answers with the sentence of process_with_gemini
LLMFailureAskingToRepeat(s, seq) == Respond(s, seq, MsgRepeat)

\* lines 1010-1015: the handler of an exception raised inside the try block
LLMFailure(s, seq) == Respond(s, seq, MsgLLMTrouble)

\* lines 831-860: get_customer_info while a session email is set
LookupWithSessionEmail(s, seq, arguments) ==
    UNION {
      IF Get(d.result, "success", FALSE)
      THEN IF d.s.last_intent = "refund" \/ d.s.last_intent = "escalate"
           THEN { Respond(e.s, seq, IF Get(e.result, "success", FALSE)
                                    THEN Get(e.result, "message", None)
                                    ELSE MsgEscalatedAnyway)
                  : e \in Dispatch([d.s EXCEPT !.customer_data = d.result.customer],
                                   "escalate_to_billing",
                                   [email |-> d.s.customer_email,
                                    reason |-> IF d.s.last_intent_details # <<>>
                                               THEN d.s.last_intent_details
                                               ELSE <<"R","e","f","u","n","d"," ",
                                                      "r","e","q","u","e","s","t">>,
                                    priority |-> "high"]) }
           ELSE { Respond([d.s EXCEPT !.customer_data = d.result.customer], seq,
                          MsgWelcomeBack(d.result.customer.name)) }
      ELSE { Respond(d.s, seq, MsgNoAccount(d.s.customer_email, "help you with your request")) }
      : d \in Dispatch(s, "get_customer_info", arguments) }

\* an escalation dispatched without looking the session email up
EscalationUnchecked(s, seq, arguments) ==
    { Respond(e.s, seq, Get(e.result, "message", None))
      : e \in Dispatch(s, "escalate_to_billing", arguments) }

\* lines 862-874: escalate_to_billing, after checking the session email's customer
Escalation(s, seq, arguments) ==
    IF Truthy(s.customer_email)
    THEN UNION {
           IF Get(c.result, "success", FALSE)
           THEN { Respond(e.s, seq, Get(e.result, "message", None))
                  : e \in Dispatch(c.s, "escalate_to_billing", arguments) }
           ELSE { Respond(c.s, seq, MsgNoAccount(c.s.customer_email, "escalate your request")) }
           : c \in Dispatch(s, "get_customer_info", [email |-> s.customer_email]) }
    ELSE { Respond(e.s, seq, Get(e.result, "message", None))
           : e \in Dispatch(s, "escalate_to_billing", arguments) }

\* lines 821-993: a function call with a name and non-empty arguments
HandleFunctionCall(s, seq, function_name, arguments) ==
    IF function_name = "create_support_ticket" /\ ~Truthy(Get(arguments, "email", None))
    THEN { Respond(s, seq, MsgAskEmail) }
    ELSE IF function_name = "get_customer_info" /\ Truthy(s.customer_email)
    THEN LookupWithSessionEmail(s, seq, arguments)
    ELSE IF function_name = "escalate_to_billing"
    THEN Escalation(s, seq, arguments)
    ELSE IF function_name = "create_support_ticket"
    \* line 877 reads `result`, a local no statement has assigned on this path:
    \* UnboundLocalError, caught at line 1010
    THEN { LLMFailure(s, seq) }
    ELSE { Respond(d.s, seq, RenderResult(function_name, d.result))
           : d \in Dispatch(s, function_name, arguments) }

\* lines 763-1015: the reply of the language model and what is made of it
HandleParsed(s, seq, function_call, response_text) ==
    IF /\ function_call # NoneDict
       /\ Truthy(Get(function_call, "function", None))
       /\ Get(function_call, "arguments", <<>>) # <<>>
    THEN HandleFunctionCall(s, seq, Get(function_call, "function", None),
                            Get(function_call, "arguments", <<>>))
    ELSE { Respond(s, seq, response_text) }

HandleReply(s, seq, reply) ==
    IF reply.raises
    THEN { LLMFailure([s EXCEPT !.llm_calls = @ + 1, !.llm_reply = reply], seq) }
    ELSE HandleParsed([s EXCEPT !.llm_calls = @ + 1, !.llm_reply = reply], seq,
                      FindFunctionCall(reply), ResponseText(reply))

\* lines 623-634 of build_function_calling_prompt: `response.lower()` on the
\* content of an assistant message among the last four raises AttributeError
\* when that content is None.  any() stops at the first response that holds
\* both "appointment" and "found", so a None behind such a response would not
\* be read; but a turn that stores None appends user, user, None, None, and
\* the window ends with the user turn of the current utterance, so that no
\* assistant message with a text stands before a None within the window.
PromptRaises(conversation_history) ==
    LET n == Len(conversation_history)
        recent == {i \in 1..n : i > n - RecentWindow}
    IN  /\ n > ContextThreshold
        /\ \E i \in recent : /\ conversation_history[i].role = "assistant"
                             /\ conversation_history[i].content = None

\* a test that never finds the email missing
needs_email_never(s, said) == FALSE

\* line 748: an account keyword, and neither customer_data nor customer_email
needs_email(s, said) ==
    said.account /\ ~TruthyDict(s.customer_data) /\ ~Truthy(s.customer_email)

\* a turn that looks for a greeting before it looks for a pending confirmation
AnswerGreetingFirst(s, seq, said) ==
    IF said.greeting
    THEN { Respond(s, seq, IF TruthyDict(s.customer_data)
                           THEN MsgGreetingKnown(Get(s.customer_data, "name", "there"))
                           ELSE MsgGreeting) }
    ELSE IF s.email_confirmation_pending /\ TruthyDict(s.pending_ticket_request)
    THEN ConfirmationFlow(s, seq, said)
    ELSE IF said.general_question
    THEN { Respond(s, seq, IF TruthyDict(s.customer_data) THEN MsgGeneralKnown ELSE MsgGeneral) }
    ELSE IF said.account /\ ~TruthyDict(s.customer_data) /\ ~Truthy(s.customer_email)
    THEN { Respond(s, seq, MsgAskEmail) }
    ELSE IF PromptRaises(s.conversation_history)
    THEN { [s |-> s, response_text |-> None, raised |-> TRUE] }
    ELSE UNION { HandleReply(s, seq, reply) : reply \in LLMReplies }

\* process_with_function_calling(transcript): the outcomes of one call, each
\* [s |-> the session it leaves, response_text |-> what it returns, raised |->
\* whether it ended in an exception instead]
\* lines 677-1015: what follows the tracking of the email and of the intent
Answer(s, seq, said) ==
    IF s.email_confirmation_pending /\ TruthyDict(s.pending_ticket_request)
    THEN ConfirmationFlow(s, seq, said)
    ELSE IF said.greeting
    THEN { Respond(s, seq, IF TruthyDict(s.customer_data)
                           THEN MsgGreetingKnown(Get(s.customer_data, "name", "there"))
                           ELSE MsgGreeting) }
    ELSE IF said.general_question
    THEN { Respond(s, seq, IF TruthyDict(s.customer_data) THEN MsgGeneralKnown ELSE MsgGeneral) }
    ELSE IF needs_email(s, said)
    THEN { Respond(s, seq, MsgAskEmail) }
    ELSE IF PromptRaises(s.conversation_history)
    THEN { [s |-> s, response_text |-> None, raised |-> TRUE] }
    ELSE UNION { HandleReply(s, seq, reply) : reply \in LLMReplies }

Heard(s0, transcript, seq, said) ==
    Answer(TrackIntent(TrackEmail(s0, said.extracted_email), transcript, said), seq, said)

process_with_function_calling(s0, transcript, seq) ==
    Heard(s0, transcript, seq, ReadingOf[transcript])

\* the topic the first call of the language model returns, when it returns
DetectedTopic == "refund"

\* process_with_gemini(transcript): the outcomes of one call, each
\* [s |-> the session it leaves, response_text |-> what it returns]
process_with_gemini(s0, transcript, seq) ==
    LET appended == [s0 EXCEPT !.conversation_history = Append(@, Message("user", seq, IsText))]
        detect == appended.conversation_topic = "" /\ Len(appended.conversation_history) = 1
        topics == IF detect THEN {DetectedTopic, "general"} ELSE {appended.conversation_topic}
        WithTopic(topic) ==
            [appended EXCEPT !.conversation_topic = topic,
                             !.llm_calls = IF detect THEN @ + 1 ELSE @]
        Finish(o) ==
            IF o.raised
            THEN [s |-> o.s, response_text |-> MsgRepeat]
            ELSE LET h == Append(o.s.conversation_history,
                                 Message("assistant", seq, o.response_text))
                     n == Len(h)
                 IN  [s |-> [o.s EXCEPT !.conversation_history =
                                IF n > HistoryLimit
                                THEN SubSeq(h, n - HistoryLimit + 1, n)
                                ELSE h],
                      response_text |-> o.response_text]
    IN  { Finish(o) : o \in UNION { process_with_function_calling(WithTopic(topic), transcript, seq)
                                    : topic \in topics } }

(***************************************************************************)
(* State                                                                   *)
(***************************************************************************)
VARIABLES
    conversation_history,        \* the messages of the dialogue
    customer_email,              \* the session email, or None
    customer_data,               \* the customer record, or NoneDict
    pending_ticket_request,      \* the arguments awaiting confirmation, or NoneDict
    email_confirmation_pending,  \* whether a confirmation is awaited
    last_intent,                 \* refund, escalate, support, or None
    last_intent_details,         \* the utterance that set last_intent, or <<>>
    conversation_topic,          \* "" until the first turn sets it
    transcript_buffer,           \* final segments of the utterance being spoken
    is_speaking,                 \* the threading.Event: audio is being played
    audio_queue,                 \* number of PCM chunks queued for playback
    zd,                          \* the ticketing backend: users and open tickets
    utterance_seq,               \* number of utterances forwarded so far
    event,                       \* what the last step was
    transcript,                  \* the utterance the last step forwarded, or <<>>
    response_text,               \* what process_with_gemini returned in the last step
    dispatched,                  \* execute_zendesk_function calls of the last step
    llm_calls,                   \* calls of the language model in the last step
    llm_reply,                   \* the reply to the function-calling prompt, or NoReply
    tts_requests,                \* texts the last step submitted to text-to-speech
    last_lookup,                 \* the latest successful get_customer_info since a denial,
                                 \* with customer_data as its turn left it (observed only)
    last_ticket,                 \* the globals of lines 64-66: the last ticket, order and
    last_order,                  \* appointment referred to, or NoneDict
    last_appointment,
    audio_buffer,                \* samples audio_playback_thread holds for the output stream
    playback_pc,                 \* where audio_playback_thread stands
    speaker_pc,                  \* where the thread of on_stt_message stands in
                                 \* speak_text_elevenlabs, or "idle" outside the handler
    chunks_left,                 \* chunks speak_text_elevenlabs has still to queue
    ws_stt,                      \* the transcription socket handle: None, created,
                                 \* connected or closed
    stt_lock,                    \* the thread that holds the lock, or "free"
    main_pc,                     \* where main() stands
    keepalive_pc                 \* where stt_keepalive stands

session_vars ==
    <<conversation_history, customer_email, customer_data, pending_ticket_request,
      email_confirmation_pending, last_intent, last_intent_details, conversation_topic, zd,
      last_lookup, last_ticket, last_order, last_appointment>>

\* lines 64-66: nothing has been referred to
NothingReferenced ==
    /\ last_ticket = NoneDict
    /\ last_order = NoneDict
    /\ last_appointment = NoneDict
audio_vars == <<is_speaking, audio_queue>>
thread_vars ==
    <<audio_buffer, playback_pc, speaker_pc, chunks_left, ws_stt, stt_lock, main_pc,
      keepalive_pc>>
step_vars == <<event, transcript, response_text, dispatched, llm_calls, llm_reply, tts_requests>>
vars == <<session_vars, audio_vars, step_vars, transcript_buffer, utterance_seq, thread_vars>>

\* the globals a turn reads and writes, as the record the operators above take
Session ==
    [conversation_history |-> conversation_history,
     customer_email |-> customer_email,
     customer_data |-> customer_data,
     pending_ticket_request |-> pending_ticket_request,
     email_confirmation_pending |-> email_confirmation_pending,
     last_intent |-> last_intent,
     last_intent_details |-> last_intent_details,
     conversation_topic |-> conversation_topic,
     zd |-> zd,
     dispatched |-> <<>>,
     llm_calls |-> 0,
     llm_reply |-> NoReply]

\* the threads while main() is in run_forever (line 1472) and the handler of
\* on_stt_message is not running: the playback thread waits for a chunk, the
\* keepalive thread sleeps, nobody holds the lock
ThreadsRunning ==
    /\ audio_buffer = 0
    /\ playback_pc = "get"
    /\ speaker_pc = "idle"
    /\ chunks_left = 0
    /\ ws_stt = "connected"
    /\ stt_lock = "free"
    /\ main_pc = "run_forever"
    /\ keepalive_pc = "sleep"

\* the backend at start: one known customer without open tickets
InitialBackend == [users |-> {User(KnownEmail, "Jeff")}, tickets |-> <<>>]

\* lines 44-66: the globals at import
Init ==
    /\ conversation_history = <<>>
    /\ customer_email = None
    /\ customer_data = NoneDict
    /\ pending_ticket_request = NoneDict
    /\ email_confirmation_pending = FALSE
    /\ last_intent = None
    /\ last_intent_details = <<>>
    /\ conversation_topic = ""
    /\ transcript_buffer = <<>>
    /\ is_speaking = FALSE
    /\ audio_queue = 0
    /\ zd = InitialBackend
    /\ utterance_seq = 0
    /\ event = "start"
    /\ transcript = <<>>
    /\ response_text = None
    /\ dispatched = <<>>
    /\ llm_calls = 0
    /\ llm_reply = NoReply
    /\ tts_requests = <<>>
    /\ NothingReferenced
    /\ last_lookup = NoneDict
    /\ ThreadsRunning

\* a step that forwards nothing leaves this record of itself
Quiet(what) ==
    /\ event' = what
    /\ transcript' = <<>>
    /\ response_text' = None
    /\ dispatched' = <<>>
    /\ llm_calls' = 0
    /\ llm_reply' = NoReply
    /\ tts_requests' = <<>>

\* on_stt_message, a Results message with is_final and a non-empty transcript
\* (lines 1261-1274); `limit` bounds the utterances of a run
FinalSegmentUpTo(limit) ==
    /\ utterance_seq < limit
    /\ \E segment \in NextSegments(transcript_buffer) :
          transcript_buffer' = Append(transcript_buffer, segment)
    /\ Quiet("final_segment")
    /\ UNCHANGED <<session_vars, audio_vars, utterance_seq, thread_vars>>

\* len(text) > 500; text[:500] (lines 1061-1062)
TTSLimit == 500

\* the characters str.strip() removes that a response can hold
StripChars == {" ", "\t", "\n", "\r"}

\* text.strip() on a string
RECURSIVE StripText(_)
StripText(text) ==
    IF text = "" THEN ""
    ELSE IF SubSeq(text, 1, 1) \in StripChars
    THEN StripText(SubSeq(text, 2, Len(text)))
    ELSE IF SubSeq(text, Len(text), Len(text)) \in StripChars
    THEN StripText(SubSeq(text, 1, Len(text) - 1))
    ELSE text

\* text.replace(old, new) for a single character `old`
RECURSIVE ReplaceText(_, _, _)
ReplaceText(text, old, new) ==
    LET found == {i \in 1..Len(text) : SubSeq(text, i, i) = old}
    IN  IF found = {} THEN text
        ELSE SubSeq(text, 1, Min(found) - 1) \o new
                \o ReplaceText(SubSeq(text, Min(found) + 1, Len(text)), old, new)

\* lines 1061-1062: if len(text) > 500: text = text[:500] + "..."
LimitText(text) ==
    IF Len(text) > TTSLimit THEN SubSeq(text, 1, TTSLimit) \o "..." ELSE text

\* lines 1060-1062: the text as it is submitted
CleanText(text) ==
    LimitText(ReplaceText(ReplaceText(StripText(text), "\n", " "), "\r", ""))

\* speak_text_elevenlabs(text), called while the flag is `speaking` and
\* `queued` chunks wait: the outcomes of the call, each [is_speaking,
\* audio_queue, tts_requests]: nothing is done for a text that is empty after
\* the clean-up (lines 1064-1065); otherwise the cleaned text is submitted and
\* the audio is queued as chunks (none when it cannot be decoded), or the flag
\* is cleared after a failed request (lines 1142, 1146)
speak_text_elevenlabs(text, speaking, queued) ==
    IF CleanText(text) = ""
    THEN {[is_speaking |-> speaking, audio_queue |-> queued, tts_requests |-> <<>>]}
    ELSE {[is_speaking |-> TRUE, audio_queue |-> n, tts_requests |-> <<CleanText(text)>>]
            : n \in 0..MaxChunks}
         \cup {[is_speaking |-> FALSE, audio_queue |-> 0,
                tts_requests |-> <<CleanText(text)>>]}

\* what a turn leaves to be observed of its lookups: nothing after a denial
\* (lines 703-713), the last successful get_customer_info of the turn (lines
\* 833, 865, 888) with the address asked for, the record returned and
\* customer_data at the end of the turn, or what was observed before
RecordLookup(previous, before, said, after) ==
    LET found == {i \in DOMAIN after.dispatched :
                     /\ after.dispatched[i].function = "get_customer_info"
                     /\ Get(after.dispatched[i].result, "success", FALSE)}
    IN  IF /\ before.email_confirmation_pending
           /\ TruthyDict(before.pending_ticket_request)
           /\ ~said.confirmation
           /\ said.denial
        THEN NoneDict
        ELSE IF found = {} THEN previous
        ELSE [email |-> Get(after.dispatched[Max(found)].arguments, "email", None),
              customer |-> after.dispatched[Max(found)].result.customer,
              customer_data |-> after.customer_data]

\* an assembler that forwards the first final segment alone
FirstSegmentOnly(buffer) == IF buffer = <<>> THEN <<>> ELSE Strip(buffer[1])

\* " ".join(transcript_buffer).strip() (line 1236)
FullTranscript(buffer) == Strip(JoinSpace(buffer))

\* a flag that is never found set
NeverSet(flag) == FALSE

\* threading.Event.is_set() (line 1241)
is_set(flag) == flag

\* lines 1246-1248: what the call of process_with_gemini for the utterance
\* leaves, `o` being its outcome
Forward(o, full_transcript) ==
    /\ Len(o.s.zd.tickets) <= MaxTickets
    /\ utterance_seq' = utterance_seq + 1
    /\ event' = "processed"
    /\ transcript' = full_transcript
    /\ response_text' = o.response_text
    /\ conversation_history' = o.s.conversation_history
    /\ customer_email' = o.s.customer_email
    /\ customer_data' = o.s.customer_data
    /\ pending_ticket_request' = o.s.pending_ticket_request
    /\ email_confirmation_pending' = o.s.email_confirmation_pending
    /\ last_intent' = o.s.last_intent
    /\ last_intent_details' = o.s.last_intent_details
    /\ conversation_topic' = o.s.conversation_topic
    /\ zd' = o.s.zd
    /\ dispatched' = o.s.dispatched
    /\ llm_calls' = o.s.llm_calls
    /\ llm_reply' = o.s.llm_reply
    /\ last_lookup' = RecordLookup(last_lookup, Session, ReadingOf[full_transcript], o.s)
    \* lines 900-951 assign last_appointment, last_order and last_ticket, names
    \* the global statement of line 654 does not list: they are locals of the
    \* call and are gone when it returns; the globals of lines 64-66 stay
    /\ UNCHANGED <<last_ticket, last_order, last_appointment>>

\* on_stt_message, an UtteranceEnd message (lines 1233-1259), with the call of
\* speak_text_elevenlabs taken as one step; `replies` are the replies of the
\* language model a specification lets happen
UtteranceEndWith(replies) ==
    LET full_transcript == FullTranscript(transcript_buffer)
    IN  /\ transcript_buffer' = <<>>
        /\ UNCHANGED thread_vars
        /\ IF transcript_buffer = <<>> \/ full_transcript = <<>>
           THEN /\ Quiet("nothing_buffered")
                /\ UNCHANGED <<session_vars, audio_vars, utterance_seq>>
           ELSE IF is_set(is_speaking)
           THEN /\ Quiet("ignored_while_speaking")
                /\ UNCHANGED <<session_vars, audio_vars, utterance_seq>>
           ELSE \E o \in process_with_gemini(Session, full_transcript, utterance_seq + 1) :
                   /\ o.s.llm_reply \in replies \cup {NoReply}
                   /\ Forward(o, full_transcript)
                   /\ IF Truthy(o.response_text)
                      THEN \E spoken \in speak_text_elevenlabs(o.response_text,
                                                                is_speaking, audio_queue) :
                              /\ is_speaking' = spoken.is_speaking
                              /\ audio_queue' = spoken.audio_queue
                              /\ tts_requests' = spoken.tts_requests
                      ELSE /\ tts_requests' = <<>>
                           /\ UNCHANGED audio_vars

FinalSegment == FinalSegmentUpTo(MaxTurns)
UtteranceEnd == UtteranceEndWith(LLMReplies)

\* audio_playback_thread, a chunk taken from the queue (lines 1185-1207)
PlaybackChunk ==
    /\ audio_queue > 0
    /\ audio_queue' = audio_queue - 1
    /\ is_speaking' \in IF audio_queue = 1 THEN {TRUE, FALSE} ELSE {TRUE}
    /\ UNCHANGED <<session_vars, step_vars, transcript_buffer, utterance_seq, thread_vars>>

\* audio_playback_thread, the queue found empty (lines 1209-1217)
PlaybackIdle ==
    /\ audio_queue = 0
    /\ is_speaking
    /\ is_speaking' = FALSE
    /\ UNCHANGED <<session_vars, step_vars, transcript_buffer, utterance_seq, audio_queue,
                   thread_vars>>

Next == FinalSegment \/ UtteranceEnd \/ PlaybackChunk \/ PlaybackIdle

\* the program from its start
Spec == Init /\ [][Next]_vars

(***************************************************************************)
(* Long conversations: as many as MaxLongTurns utterances, the language     *)
(* model answering directly or asking for an escalation without an email.   *)
(***************************************************************************)
LongReplies ==
    { Says(<<Prose(DirectAnswer)>>),
      Call("escalate_to_billing", [reason |-> EscalationReason]) }

FinalSegmentLong == FinalSegmentUpTo(MaxLongTurns)
UtteranceEndLong == UtteranceEndWith(LongReplies)

NextLong == FinalSegmentLong \/ UtteranceEndLong \/ PlaybackChunk \/ PlaybackIdle

SpecLong == Init /\ [][NextLong]_vars

(***************************************************************************)
(* A session that awaits the confirmation of an email: the globals as the   *)
(* turn that asks for the confirmation is written to leave them, after a    *)
(* lookup of an earlier turn stored the customer record or without one.     *)
(***************************************************************************)
\* the record line 835 stores after a lookup of the known customer
KnownCustomer ==
    ExecGetCustomerInfo([email |-> KnownEmail], InitialBackend, {}).result.customer

PendingRequests ==
    { [email |-> e, subject |-> TicketSubject, description |-> TicketDescription]
      : e \in Emails }

InitPending ==
    /\ conversation_history =
          <<Message("user", 1, IsText), Message("user", 1, IsText),
            Message("assistant", 1, IsText), Message("assistant", 1, IsText)>>
    /\ pending_ticket_request \in PendingRequests
    /\ customer_email \in {None, pending_ticket_request.email}
    /\ customer_data \in {NoneDict, KnownCustomer}
    /\ email_confirmation_pending = TRUE
    /\ last_intent = None
    /\ last_intent_details = <<>>
    /\ conversation_topic = DetectedTopic
    /\ transcript_buffer = <<>>
    /\ is_speaking = FALSE
    /\ audio_queue = 0
    /\ zd = InitialBackend
    /\ utterance_seq = 1
    /\ event = "start"
    /\ transcript = <<>>
    /\ response_text = None
    /\ dispatched = <<>>
    /\ llm_calls = 0
    /\ llm_reply = NoReply
    /\ tts_requests = <<>>
    /\ NothingReferenced
    /\ last_lookup = IF customer_data = NoneDict THEN NoneDict
                     ELSE [email |-> KnownEmail, customer |-> KnownCustomer,
                           customer_data |-> customer_data]
    /\ ThreadsRunning

SpecPending == InitPending /\ [][Next]_vars

(***************************************************************************)
(* The answers to the question whether the email is correct: the session    *)
(* awaits the confirmation and the caller says a denial keyword, a denial   *)
(* with an address, a confirmation or something else; then the dialogue     *)
(* goes on with the same utterances.                                        *)
(***************************************************************************)
\* utterances after the turn that asked for the confirmation
MaxConfirmTurns == 2

\* on_stt_message, a final segment of one of these answers (lines 1261-1274)
FinalSegmentConfirm ==
    /\ utterance_seq < 1 + MaxConfirmTurns
    /\ \E segment \in SegmentsAfter(ConfirmUtterances, transcript_buffer) :
          transcript_buffer' = Append(transcript_buffer, segment)
    /\ Quiet("final_segment")
    /\ UNCHANGED <<session_vars, audio_vars, utterance_seq, thread_vars>>

NextConfirm == FinalSegmentConfirm \/ UtteranceEndLong \/ PlaybackChunk \/ PlaybackIdle

SpecConfirm == InitPending /\ [][NextConfirm]_vars

(***************************************************************************)
(* The identity of the caller: from the program's start the caller gives    *)
(* one address, then another, and the language model answers directly or    *)
(* looks the known customer up.                                             *)
(***************************************************************************)
IdentityUtterances == {SayEmail, SayNoEmail, SayMore}

IdentityReplies ==
    { Says(<<Prose(DirectAnswer)>>),
      Call("get_customer_info", [email |-> KnownEmail]) }

\* on_stt_message, a final segment of one of these utterances (lines 1261-1274)
FinalSegmentIdentity ==
    /\ utterance_seq < MaxTurns
    /\ \E segment \in SegmentsAfter(IdentityUtterances, transcript_buffer) :
          transcript_buffer' = Append(transcript_buffer, segment)
    /\ Quiet("final_segment")
    /\ UNCHANGED <<session_vars, audio_vars, utterance_seq, thread_vars>>

UtteranceEndIdentity == UtteranceEndWith(IdentityReplies)

NextIdentity == FinalSegmentIdentity \/ UtteranceEndIdentity \/ PlaybackChunk \/ PlaybackIdle

SpecIdentity == Init /\ [][NextIdentity]_vars

(***************************************************************************)
(* extract_email_from_text on its own: a text has reached                   *)
(* process_with_function_calling, and the step is lines 656-659, which call *)
(* the function and store what it returns as the session email.  The texts  *)
(* are made of an opening, a local part as it is said, a separator for the  *)
(* at sign, a domain, a separator for the dot and a top-level domain; or    *)
(* they hold no address at all.                                             *)
(***************************************************************************)
SpokenAt == <<" ","a","t"," ">>
SpokenDot == <<" ","d","o","t"," ">>

ExtractPrefixes ==
    { <<>>,
      <<"c","o","n","t","a","c","t"," ","m","e"," ","a","t"," ">>,
      <<"m","y"," ","e","m","a","i","l"," ","i","s"," ">> }

\* a local part as it is said and as it is written
ExtractLocals ==
    { [said |-> <<"j","e","f","f">>, written |-> <<"j","e","f","f">>],
      [said |-> <<"j","e","f","f"," ","d","o","t"," ","s","m","i","t","h">>,
       written |-> <<"j","e","f","f",".","s","m","i","t","h">>],
      [said |-> <<"j",".","s">>, written |-> <<"j",".","s">>] }

ExtractDomains == { <<"g","m","a","i","l">>, <<"x">> }
ExtractTlds == { <<"c","o","m">>, <<"i","o">> }
AtSeparators == { SpokenAt, <<"@">> }
DotSeparators == { SpokenDot, <<".">> }

\* texts that match none of the three patterns
PlainTexts ==
    { <<"n","o"," ","e","m","a","i","l"," ","h","e","r","e">>,
      <<"l","o","o","k"," ","a","t"," ","t","h","a","t">> }

Compose(prefix, local, at, domain, dot, tld) ==
    prefix \o local \o at \o domain \o dot \o tld

ExtractInputs ==
    { Compose(prefix, local.said, at, domain, dot, tld) :
        prefix \in ExtractPrefixes, local \in ExtractLocals, at \in AtSeparators,
        domain \in ExtractDomains, dot \in DotSeparators, tld \in ExtractTlds }
    \cup PlainTexts

InitExtract ==
    /\ conversation_history = <<>>
    /\ customer_email = None
    /\ customer_data = NoneDict
    /\ pending_ticket_request = NoneDict
    /\ email_confirmation_pending = FALSE
    /\ last_intent = None
    /\ last_intent_details = <<>>
    /\ conversation_topic = ""
    /\ transcript_buffer = <<>>
    /\ is_speaking = FALSE
    /\ audio_queue = 0
    /\ zd = InitialBackend
    /\ utterance_seq = 0
    /\ event = "heard"
    /\ transcript \in ExtractInputs
    /\ response_text = None
    /\ dispatched = <<>>
    /\ llm_calls = 0
    /\ llm_reply = NoReply
    /\ tts_requests = <<>>
    /\ NothingReferenced
    /\ last_lookup = NoneDict
    /\ ThreadsRunning

\* lines 656-659: extracted_email = extract_email_from_text(transcript);
\* if extracted_email: customer_email = extracted_email
ExtractEmail ==
    /\ event = "heard"
    /\ event' = "extracted"
    /\ customer_email' =
          TrackEmail(Session, extract_email_from_text(transcript)).customer_email
    /\ UNCHANGED <<conversation_history, customer_data, pending_ticket_request,
                   email_confirmation_pending, last_intent, last_intent_details,
                   conversation_topic, zd, last_lookup, last_ticket, last_order, last_appointment,
                   audio_vars, transcript_buffer,
                   utterance_seq, transcript, response_text, dispatched, llm_calls,
                   llm_reply, tts_requests, thread_vars>>

NextExtract == ExtractEmail

SpecExtract == InitExtract /\ [][NextExtract]_vars

(***************************************************************************)
(* execute_zendesk_function on its own: the known customer has some open    *)
(* tickets, the language model has asked for a search of one kind, for a    *)
(* support ticket or for an escalation, and the step is the dispatch of     *)
(* that call, with each way its requests can fail.                          *)
(***************************************************************************)
SearchKinds == {"appointments", "orders", "all"}

SearchSubjects ==
    { TicketSubject,
      <<"I","n","v","o","i","c","e">>,
      <<"S","c","h","e","d","u","l","e"," ","p","a","y","m","e","n","t">>,
      <<"P","a","s","s","w","o","r","d">> }
SearchDescriptions == { TicketDescription, <<"H","i">> }

\* the open tickets of the known customer, numbered as they were created
SearchBackends ==
    UNION { { [users |-> InitialBackend.users,
               tickets |-> [i \in 1..n |->
                              [id |-> ToString(i), requester |-> KnownEmail,
                               subject |-> shape[i][1], description |-> shape[i][2],
                               tags |-> <<"voice_chat", "support">>,
                               priority |-> "normal", comments |-> <<>>]]]
              : shape \in [1..n -> SearchSubjects \X SearchDescriptions] }
            : n \in 0..MaxOpenTickets }

\* the calls the dispatcher is given
DispatcherCalls ==
    { Call("search_customer_tickets", [email |-> KnownEmail, search_type |-> kind])
      : kind \in SearchKinds }
    \cup { Call("create_support_ticket",
                [email |-> KnownEmail, subject |-> TicketSubject,
                 description |-> TicketDescription]),
           Call("escalate_to_billing", [email |-> KnownEmail, reason |-> EscalationReason]) }

InitDispatch ==
    /\ conversation_history = <<>>
    /\ customer_email = None
    /\ customer_data = NoneDict
    /\ pending_ticket_request = NoneDict
    /\ email_confirmation_pending = FALSE
    /\ last_intent = None
    /\ last_intent_details = <<>>
    /\ conversation_topic = ""
    /\ transcript_buffer = <<>>
    /\ is_speaking = FALSE
    /\ audio_queue = 0
    /\ zd \in SearchBackends
    /\ utterance_seq = 0
    /\ event = "called"
    /\ transcript = <<>>
    /\ response_text = None
    /\ dispatched = <<>>
    /\ llm_calls = 1
    /\ llm_reply \in DispatcherCalls
    /\ tts_requests = <<>>
    /\ NothingReferenced
    /\ last_lookup = NoneDict
    /\ ThreadsRunning

\* the tickets a result of search_customer_tickets returns, whatever the key
Returned(result) ==
    LET found == Get(result, "appointments", <<>>) \o Get(result, "orders", <<>>)
                    \o Get(result, "tickets", <<>>)
    IN  {found[i] : i \in DOMAIN found}

\* result = await execute_zendesk_function(function_name, arguments)
DispatchCall ==
    /\ event = "called"
    /\ event' = "dispatched"
    /\ \E d \in Dispatch(Session, FindFunctionCall(llm_reply).function,
                         FindFunctionCall(llm_reply).arguments) :
          /\ dispatched' = d.s.dispatched
          /\ zd' = d.s.zd
    /\ UNCHANGED <<conversation_history, customer_email, customer_data,
                   pending_ticket_request, email_confirmation_pending, last_intent,
                   last_intent_details, conversation_topic, last_lookup, last_ticket, last_order,
                   last_appointment, audio_vars,
                   transcript_buffer, utterance_seq, transcript, response_text, llm_calls,
                   llm_reply, tts_requests, thread_vars>>

NextDispatch == DispatchCall

SpecDispatch == InitDispatch /\ [][NextDispatch]_vars

(***************************************************************************)
(* The threads, statement by statement: main(), the handler of              *)
(* on_stt_message up to the end of speak_text_elevenlabs on the thread of   *)
(* run_forever, audio_playback_thread with the callback of its output       *)
(* stream, and stt_keepalive.  A step is what one thread does between two   *)
(* points at which another thread can see or change what it works on.       *)
(***************************************************************************)
\* chunk_size = 1024 (line 1126)
ChunkSize == 1024
\* blocksize=1024 of the output stream (line 1178): the frames of one callback
BlockSize == 1024
\* len(audio_buffer) < 1024 (line 1199)
LowBuffer == 1024
\* len(audio_buffer) < 512 (lines 1203, 1211)
DrainedBuffer == 512
\* len(audio_buffer) < 256 (line 1214)
TimeoutBuffer == 256

\* the samples the last chunk of a response can hold when it is not full
ShortChunks == {100, 300, 600}

\* the replies of the language model in a run of the threads
ThreadReplies == { Says(<<Prose(DirectAnswer)>>) }
\* what the caller says in a run of the threads
ThreadUtterances == {SayHello, SayMore}

\* the program at the start of main()
InitThreads ==
    /\ conversation_history = <<>>
    /\ customer_email = None
    /\ customer_data = NoneDict
    /\ pending_ticket_request = NoneDict
    /\ email_confirmation_pending = FALSE
    /\ last_intent = None
    /\ last_intent_details = <<>>
    /\ conversation_topic = ""
    /\ transcript_buffer = <<>>
    /\ is_speaking = FALSE
    /\ audio_queue = 0
    /\ zd = InitialBackend
    /\ utterance_seq = 0
    /\ event = "start"
    /\ transcript = <<>>
    /\ response_text = None
    /\ dispatched = <<>>
    /\ llm_calls = 0
    /\ llm_reply = NoReply
    /\ tts_requests = <<>>
    /\ NothingReferenced
    /\ last_lookup = NoneDict
    /\ audio_buffer = 0
    /\ playback_pc = "unstarted"
    /\ speaker_pc = "idle"
    /\ chunks_left = 0
    /\ ws_stt = None
    /\ stt_lock = "free"
    /\ main_pc = "start"
    /\ keepalive_pc = "unstarted"

\* main() has not returned: the other threads are daemons and end with it
Alive == main_pc # "done"
\* run_forever is reading the socket: no shutdown signal has been queued
Connected == main_pc = "run_forever"

\* a dispatcher of callbacks that does not wait for the handler to return
HandlerNeverBusy(pc) == TRUE

\* run_forever calls on_stt_message on its own thread, one message at a time:
\* a message is handled when the handler of the one before has returned
\* (lines 1227-1284 start no thread and defer nothing)
HandlerIdle(pc) == pc = "idle"

(* main *)
\* lines 1452-1458: the playback thread and the keepalive thread are started
MainStart ==
    /\ main_pc = "start"
    /\ main_pc' = "assign"
    /\ playback_pc' = "get"
    /\ keepalive_pc' = "sleep"
    /\ UNCHANGED <<session_vars, audio_vars, step_vars, transcript_buffer, utterance_seq,
                   audio_buffer, speaker_pc, chunks_left, ws_stt, stt_lock>>

\* lines 1463-1471: ws_stt = websocket.WebSocketApp(...)
MainAssign ==
    /\ main_pc = "assign"
    /\ main_pc' = "run"
    /\ ws_stt' = "created"
    /\ UNCHANGED <<session_vars, audio_vars, step_vars, transcript_buffer, utterance_seq,
                   audio_buffer, playback_pc, speaker_pc, chunks_left, stt_lock, keepalive_pc>>

\* line 1472: ws_stt.run_forever() connects, or fails to and returns
MainConnect ==
    /\ main_pc = "run"
    /\ \/ ws_stt' = "connected" /\ main_pc' = "run_forever"
       \/ ws_stt' = ws_stt /\ main_pc' = "finally"
    /\ UNCHANGED <<session_vars, audio_vars, step_vars, transcript_buffer, utterance_seq,
                   audio_buffer, playback_pc, speaker_pc, chunks_left, stt_lock, keepalive_pc>>

\* run_forever returns between two messages: the connection was closed
\* (on_stt_close, lines 1290-1294), or an exception left it with the socket
\* still there
MainReturn ==
    /\ main_pc = "run_forever"
    /\ speaker_pc = "idle"
    /\ main_pc' = "finally"
    /\ ws_stt' \in {"closed", ws_stt}
    /\ UNCHANGED <<session_vars, audio_vars, step_vars, transcript_buffer, utterance_seq,
                   audio_buffer, playback_pc, speaker_pc, chunks_left, stt_lock, keepalive_pc>>

\* line 1478: audio_queue.put(None); line 1479: with stt_lock
MainAcquire ==
    /\ main_pc = "finally"
    /\ stt_lock = "free"
    /\ stt_lock' = "main"
    /\ main_pc' = "check"
    /\ UNCHANGED <<session_vars, audio_vars, step_vars, transcript_buffer, utterance_seq,
                   audio_buffer, playback_pc, speaker_pc, chunks_left, ws_stt, keepalive_pc>>

\* line 1480: if ws_stt and hasattr(ws_stt, 'sock') and ws_stt.sock
MainCheck ==
    /\ main_pc = "check"
    /\ main_pc' = IF ws_stt = "connected" THEN "close" ELSE "release"
    /\ UNCHANGED <<session_vars, audio_vars, step_vars, transcript_buffer, utterance_seq,
                   audio_buffer, playback_pc, speaker_pc, chunks_left, ws_stt, stt_lock,
                   keepalive_pc>>

\* line 1481: ws_stt.close()
MainClose ==
    /\ main_pc = "close"
    /\ ws_stt' = "closed"
    /\ main_pc' = "release"
    /\ UNCHANGED <<session_vars, audio_vars, step_vars, transcript_buffer, utterance_seq,
                   audio_buffer, playback_pc, speaker_pc, chunks_left, stt_lock, keepalive_pc>>

\* the end of the with block of line 1479, and of main()
MainRelease ==
    /\ main_pc = "release"
    /\ stt_lock' = "free"
    /\ main_pc' = "done"
    /\ UNCHANGED <<session_vars, audio_vars, step_vars, transcript_buffer, utterance_seq,
                   audio_buffer, playback_pc, speaker_pc, chunks_left, ws_stt, keepalive_pc>>

(* stt_keepalive *)
\* lines 1360-1361: time.sleep(30); with stt_lock
KeepaliveAcquire ==
    /\ Alive
    /\ keepalive_pc = "sleep"
    /\ stt_lock = "free"
    /\ stt_lock' = "keepalive"
    /\ keepalive_pc' = "check"
    /\ UNCHANGED <<session_vars, audio_vars, step_vars, transcript_buffer, utterance_seq,
                   audio_buffer, playback_pc, speaker_pc, chunks_left, ws_stt, main_pc>>

\* line 1362: if ws_stt and hasattr(ws_stt, 'sock') and ws_stt.sock and ws_stt.sock.connected
KeepaliveCheck ==
    /\ Alive
    /\ keepalive_pc = "check"
    /\ keepalive_pc' = IF ws_stt = "connected" THEN "ping" ELSE "release"
    /\ UNCHANGED <<session_vars, audio_vars, step_vars, transcript_buffer, utterance_seq,
                   audio_buffer, playback_pc, speaker_pc, chunks_left, ws_stt, stt_lock,
                   main_pc>>

\* line 1364: ws_stt.send("", opcode=PING), which returns or raises; an
\* exception leaves the with block and ends the loop (lines 1366-1368)
KeepalivePing ==
    /\ Alive
    /\ keepalive_pc = "ping"
    /\ \/ keepalive_pc' = "release" /\ stt_lock' = stt_lock
       \/ keepalive_pc' = "done" /\ stt_lock' = "free"
    /\ UNCHANGED <<session_vars, audio_vars, step_vars, transcript_buffer, utterance_seq,
                   audio_buffer, playback_pc, speaker_pc, chunks_left, ws_stt, main_pc>>

\* the end of the with block of line 1361
KeepaliveRelease ==
    /\ Alive
    /\ keepalive_pc = "release"
    /\ stt_lock' = "free"
    /\ keepalive_pc' = "sleep"
    /\ UNCHANGED <<session_vars, audio_vars, step_vars, transcript_buffer, utterance_seq,
                   audio_buffer, playback_pc, speaker_pc, chunks_left, ws_stt, main_pc>>

(* on_stt_message *)
\* a Results message with a final segment (lines 1261-1274)
FinalSegmentThreads ==
    /\ Connected
    /\ HandlerIdle(speaker_pc)
    /\ FinalSegmentUpTo(MaxThreadTurns)
    /\ \E u \in ThreadUtterances :
          transcript_buffer' = SubSeq(u, 1, Len(transcript_buffer'))

\* an UtteranceEnd message (lines 1233-1259) up to the call of
\* speak_text_elevenlabs and the clean-up of its text (lines 1060-1065)
UtteranceEndThreads ==
    /\ Connected
    /\ HandlerIdle(speaker_pc)
    /\ transcript_buffer' = <<>>
    /\ UNCHANGED <<audio_vars, audio_buffer, playback_pc, chunks_left, ws_stt, stt_lock,
                   main_pc, keepalive_pc>>
    /\ IF transcript_buffer = <<>> \/ FullTranscript(transcript_buffer) = <<>>
       THEN /\ Quiet("nothing_buffered")
            /\ UNCHANGED <<session_vars, utterance_seq, speaker_pc>>
       ELSE IF is_set(is_speaking)
       THEN /\ Quiet("ignored_while_speaking")
            /\ UNCHANGED <<session_vars, utterance_seq, speaker_pc>>
       ELSE \E o \in process_with_gemini(Session, FullTranscript(transcript_buffer),
                                         utterance_seq + 1) :
               /\ o.s.llm_reply \in ThreadReplies \cup {NoReply}
               /\ Forward(o, FullTranscript(transcript_buffer))
               /\ tts_requests' = <<>>
               /\ speaker_pc' = IF Truthy(o.response_text) /\ CleanText(o.response_text) # ""
                                THEN "wait" ELSE "idle"

(* speak_text_elevenlabs *)
\* lines 1068-1079: the flag is found clear, the queue is emptied, the flag is set
SpeakWait ==
    /\ speaker_pc = "wait"
    /\ ~is_set(is_speaking)
    /\ audio_queue' = 0
    /\ is_speaking' = TRUE
    /\ speaker_pc' = "post"
    /\ UNCHANGED <<session_vars, step_vars, transcript_buffer, utterance_seq, audio_buffer,
                   playback_pc, chunks_left, ws_stt, stt_lock, main_pc, keepalive_pc>>

\* lines 1099-1124 and 1140-1146: the request is made; the audio comes back as
\* some chunks to queue (none when it cannot be decoded), or the request
\* fails and the flag is cleared
SpeakPost ==
    /\ speaker_pc = "post"
    /\ tts_requests' = <<CleanText(response_text)>>
    /\ \/ /\ chunks_left' \in 0..MaxSpokenChunks
          /\ speaker_pc' = "put"
          /\ is_speaking' = is_speaking
       \/ /\ chunks_left' = 0
          /\ speaker_pc' = "idle"
          /\ is_speaking' = FALSE
    /\ UNCHANGED <<session_vars, event, transcript, response_text, dispatched, llm_calls,
                   llm_reply, transcript_buffer, utterance_seq, audio_queue, audio_buffer,
                   playback_pc, ws_stt, stt_lock, main_pc, keepalive_pc>>

\* lines 1127-1129: audio_queue.put(chunk.tobytes())
SpeakPut ==
    /\ speaker_pc = "put"
    /\ chunks_left > 0
    /\ audio_queue' = audio_queue + 1
    /\ chunks_left' = chunks_left - 1
    /\ UNCHANGED <<session_vars, step_vars, transcript_buffer, utterance_seq, is_speaking,
                   audio_buffer, playback_pc, speaker_pc, ws_stt, stt_lock, main_pc,
                   keepalive_pc>>

\* line 1131: the loop has ended; speak_text_elevenlabs and the handler return
SpeakDone ==
    /\ speaker_pc = "put"
    /\ chunks_left = 0
    /\ speaker_pc' = "idle"
    /\ UNCHANGED <<session_vars, audio_vars, step_vars, transcript_buffer, utterance_seq,
                   audio_buffer, playback_pc, chunks_left, ws_stt, stt_lock, main_pc,
                   keepalive_pc>>

(* audio_playback_thread *)
\* the samples of the chunk at the head of the queue: chunk_size, or fewer for
\* the last chunk of a response, which is the head when it is alone in the
\* queue and speak_text_elevenlabs has no chunk left to put
HeadSamples ==
    IF audio_queue = 1 /\ chunks_left = 0 THEN {ChunkSize} \cup ShortChunks ELSE {ChunkSize}

\* lines 1185-1195: a chunk is taken and appended to the buffer; the flag is
\* set if it was not
PlaybackGet ==
    /\ Alive
    /\ playback_pc = "get"
    /\ audio_queue > 0
    /\ audio_queue' = audio_queue - 1
    /\ \E samples \in HeadSamples : audio_buffer' = audio_buffer + samples
    /\ is_speaking' = TRUE
    /\ playback_pc' = "got"
    /\ UNCHANGED <<session_vars, step_vars, transcript_buffer, utterance_seq, speaker_pc,
                   chunks_left, ws_stt, stt_lock, main_pc, keepalive_pc>>

\* lines 1199-1202: if is_speaking.is_set() and len(audio_buffer) < 1024:
\* if audio_queue.empty(): time.sleep(0.2)
PlaybackLow ==
    /\ Alive
    /\ playback_pc = "got"
    /\ playback_pc' = IF is_set(is_speaking) /\ audio_buffer < LowBuffer /\ audio_queue = 0
                      THEN "low_sleep" ELSE "get"
    /\ UNCHANGED <<session_vars, audio_vars, step_vars, transcript_buffer, utterance_seq,
                   audio_buffer, speaker_pc, chunks_left, ws_stt, stt_lock, main_pc,
                   keepalive_pc>>

\* line 1203: if audio_queue.empty() and len(audio_buffer) < 512
PlaybackLowCheck ==
    /\ Alive
    /\ playback_pc = "low_sleep"
    /\ playback_pc' = IF audio_queue = 0 /\ audio_buffer < DrainedBuffer
                      THEN "low_clear" ELSE "get"
    /\ UNCHANGED <<session_vars, audio_vars, step_vars, transcript_buffer, utterance_seq,
                   audio_buffer, speaker_pc, chunks_left, ws_stt, stt_lock, main_pc,
                   keepalive_pc>>

\* line 1204: is_speaking.clear()
PlaybackLowClear ==
    /\ Alive
    /\ playback_pc = "low_clear"
    /\ is_speaking' = FALSE
    /\ playback_pc' = "get"
    /\ UNCHANGED <<session_vars, step_vars, transcript_buffer, utterance_seq, audio_queue,
                   audio_buffer, speaker_pc, chunks_left, ws_stt, stt_lock, main_pc,
                   keepalive_pc>>

\* lines 1209-1213: audio_queue.get(timeout=1) raised queue.Empty;
\* if is_speaking.is_set() and len(audio_buffer) < 512: time.sleep(0.3)
PlaybackTimeout ==
    /\ Connected
    /\ playback_pc = "get"
    /\ audio_queue = 0
    /\ is_set(is_speaking)
    /\ audio_buffer < DrainedBuffer
    /\ playback_pc' = "timeout_sleep"
    /\ UNCHANGED <<session_vars, audio_vars, step_vars, transcript_buffer, utterance_seq,
                   audio_buffer, speaker_pc, chunks_left, ws_stt, stt_lock, main_pc,
                   keepalive_pc>>

\* a timeout branch that leaves the flag as it is
PlaybackTimeoutKeep ==
    /\ Alive
    /\ playback_pc = "timeout_sleep"
    /\ playback_pc' = "get"
    /\ UNCHANGED <<session_vars, audio_vars, step_vars, transcript_buffer, utterance_seq,
                   audio_buffer, speaker_pc, chunks_left, ws_stt, stt_lock, main_pc,
                   keepalive_pc>>

\* lines 1214-1217: if len(audio_buffer) < 256: is_speaking.clear(); continue
PlaybackTimeoutClear ==
    /\ Alive
    /\ playback_pc = "timeout_sleep"
    /\ is_speaking' = IF audio_buffer < TimeoutBuffer THEN FALSE ELSE is_speaking
    /\ playback_pc' = "get"
    /\ UNCHANGED <<session_vars, step_vars, transcript_buffer, utterance_seq, audio_queue,
                   audio_buffer, speaker_pc, chunks_left, ws_stt, stt_lock, main_pc,
                   keepalive_pc>>

\* lines 1186-1187 and 1221-1225: the shutdown signal is taken after the
\* chunks queued before it; the loop ends and the flag is cleared
PlaybackExit ==
    /\ Alive
    /\ ~Connected
    /\ main_pc \notin {"start", "assign", "run"}
    /\ playback_pc = "get"
    /\ audio_queue = 0
    /\ is_speaking' = FALSE
    /\ playback_pc' = "done"
    /\ UNCHANGED <<session_vars, step_vars, transcript_buffer, utterance_seq, audio_queue,
                   audio_buffer, speaker_pc, chunks_left, ws_stt, stt_lock, main_pc,
                   keepalive_pc>>

\* audio_callback (lines 1153-1170): the output stream takes the frames of one
\* block from the buffer, or what is left of it
AudioCallback ==
    /\ Alive
    /\ playback_pc \notin {"unstarted", "done"}
    /\ audio_buffer > 0
    /\ audio_buffer' = IF audio_buffer >= BlockSize THEN audio_buffer - BlockSize ELSE 0
    /\ UNCHANGED <<session_vars, audio_vars, step_vars, transcript_buffer, utterance_seq,
                   playback_pc, speaker_pc, chunks_left, ws_stt, stt_lock, main_pc,
                   keepalive_pc>>

NextThreads ==
    \/ MainStart \/ MainAssign \/ MainConnect \/ MainReturn \/ MainAcquire \/ MainCheck
    \/ MainClose \/ MainRelease
    \/ KeepaliveAcquire \/ KeepaliveCheck \/ KeepalivePing \/ KeepaliveRelease
    \/ FinalSegmentThreads \/ UtteranceEndThreads
    \/ SpeakWait \/ SpeakPost \/ SpeakPut \/ SpeakDone
    \/ PlaybackGet \/ PlaybackLow \/ PlaybackLowCheck \/ PlaybackLowClear
    \/ PlaybackTimeout \/ PlaybackTimeoutClear \/ PlaybackExit \/ AudioCallback

SpecThreads == InitThreads /\ [][NextThreads]_vars

\* the playback thread and the callback of the output stream are scheduled
\* again and again while the process lives: a step of theirs that stays
\* possible is taken
PlaybackFairness ==
    /\ WF_vars(PlaybackGet)
    /\ WF_vars(PlaybackLow)
    /\ WF_vars(PlaybackLowCheck)
    /\ WF_vars(PlaybackLowClear)
    /\ WF_vars(PlaybackTimeout)
    /\ WF_vars(PlaybackTimeoutClear)
    /\ WF_vars(PlaybackExit)
    /\ WF_vars(AudioCallback)

SpecThreadsFair == InitThreads /\ [][NextThreads]_vars /\ PlaybackFairness

(***************************************************************************)
(* Properties                                                              *)
(***************************************************************************)
\* C1: processing one forwarded utterance appends exactly one user turn and
\* exactly one assistant turn to conversation_history, whatever branch the
\* turn takes, and then keeps the last 12 entries
C1_OneUserOneAssistantTurn ==
    [][event' = "processed" =>
          LET appended == conversation_history
                              \o <<Message("user", utterance_seq', IsText),
                                   Message("assistant", utterance_seq', response_text')>>
              n == Len(appended)
          IN  conversation_history' = IF n > HistoryLimit
                                      THEN SubSeq(appended, n - HistoryLimit + 1, n)
                                      ELSE appended]_vars

\* C2: after every processed utterance, the turns that raise included,
\* conversation_history holds at most 12 entries
C2_HistoryAtMostTwelve == Len(conversation_history) <= HistoryLimit

\* C3: from an empty history, after 7 processed utterances conversation_history
\* holds exactly 12 entries: the user turn and the assistant turn of each of the
\* 6 most recent utterances, in order, each once
C3_SixMostRecentExchanges ==
    utterance_seq = 7 =>
        /\ Len(conversation_history) = 12
        /\ \A k \in 1..6 :
              /\ conversation_history[2 * k - 1].role = "user"
              /\ conversation_history[2 * k - 1].seq = k + 1
              /\ conversation_history[2 * k].role = "assistant"
              /\ conversation_history[2 * k].seq = k + 1

\* C4: while a confirmation is pending (flag set, request stored), an utterance
\* with a confirm keyword dispatches confirm_email_and_create_ticket exactly once
\* with the stored request, dispatches nothing else, calls the language model
\* not at all, and leaves the flag false and the request None whether the
\* dispatch succeeded or failed
C4_ConfirmDispatchesStoredRequestOnce ==
    [][(/\ email_confirmation_pending
        /\ TruthyDict(pending_ticket_request)
        /\ event' = "processed"
        /\ AnyIn(confirmation_keywords, Strip(Lower(transcript'))))
       => /\ Len(dispatched') = 1
          /\ dispatched'[1].function = "confirm_email_and_create_ticket"
          /\ dispatched'[1].arguments = pending_ticket_request
          /\ llm_calls' = 0
          /\ ~email_confirmation_pending'
          /\ pending_ticket_request' = NoneDict]_vars

\* a confirmed request whose dispatch failed, after the turn
C4_ConfirmedRequestFailed ==
    /\ event = "processed"
    /\ AnyIn(confirmation_keywords, Strip(Lower(transcript)))
    /\ llm_calls = 0
    /\ Len(dispatched) = 1
    /\ dispatched[1].function = "confirm_email_and_create_ticket"
    /\ ~Get(dispatched[1].result, "success", FALSE)
    /\ ~email_confirmation_pending
    /\ pending_ticket_request = NoneDict

\* C5: while a confirmation is pending, an utterance with a deny keyword and no
\* confirm keyword leaves the flag false, the request None and the session
\* email None, dispatches nothing, calls the language model not at all, and
\* answers with the request for the correct email
C5_DenialClearsRequestAndEmail ==
    [][(/\ email_confirmation_pending
        /\ TruthyDict(pending_ticket_request)
        /\ event' = "processed"
        /\ AnyIn(denial_keywords, Strip(Lower(transcript')))
        /\ ~AnyIn(confirmation_keywords, Strip(Lower(transcript'))))
       => /\ ~email_confirmation_pending'
          /\ pending_ticket_request' = NoneDict
          /\ customer_email' = None
          /\ dispatched' = <<>>
          /\ llm_calls' = 0
          /\ response_text' = MsgAskCorrectEmail]_vars

\* a denied request, after the turn
C5_RequestDenied ==
    /\ event = "processed"
    /\ AnyIn(denial_keywords, Strip(Lower(transcript)))
    /\ ~AnyIn(confirmation_keywords, Strip(Lower(transcript)))
    /\ response_text = MsgAskCorrectEmail
    /\ customer_email = None
    /\ ~email_confirmation_pending
    /\ pending_ticket_request = NoneDict
    /\ dispatched = <<>>

\* C6: when the language model asks for create_support_ticket with an email the
\* backend has no customer for, the turn dispatches create_support_ticket, stores
\* the call's arguments as the pending request with the flag set, and asks to
\* confirm the email; a confirming utterance that follows, its dispatch
\* succeeding, is answered with the account-and-ticket-created message
C6_UnknownCustomerIsAskedToConfirm ==
    [][/\ LET function_call == FindFunctionCall(llm_reply')
              arguments == Get(function_call, "arguments", <<>>)
          IN  (/\ event' = "processed"
               /\ llm_calls' > 0
               /\ ~llm_reply'.raises
               /\ function_call # NoneDict
               /\ Get(function_call, "function", None) = "create_support_ticket"
               /\ Truthy(Get(arguments, "email", None))
               /\ \A user \in zd.users : user.email # arguments.email)
              => /\ Len(dispatched') = 1
                 /\ dispatched'[1].function = "create_support_ticket"
                 /\ dispatched'[1].arguments = arguments
                 /\ email_confirmation_pending'
                 /\ pending_ticket_request' = arguments
                 /\ response_text' = MsgConfirmEmail(arguments.email)
       /\ (/\ email_confirmation_pending
           /\ TruthyDict(pending_ticket_request)
           /\ event' = "processed"
           /\ AnyIn(confirmation_keywords, Strip(Lower(transcript')))
           /\ Len(dispatched') = 1
           /\ Get(dispatched'[1].result, "success", FALSE))
          => response_text' = MsgAccountCreated]_vars

\* C7: an utterance with a refund keyword, processed while no session email and
\* no customer record are known, dispatches nothing, is answered with the
\* request for the email address, and leaves the sticky intent refund
C7_RefundWithoutEmailAsksForEmail ==
    [][(/\ event' = "processed"
        /\ customer_email = None
        /\ customer_data = NoneDict
        /\ ~email_confirmation_pending
        /\ AnyIn(refund_keywords, Strip(Lower(transcript')))
        /\ extract_email_from_text(transcript') = <<>>)
       => /\ dispatched' = <<>>
          /\ response_text' = MsgAskEmail
          /\ last_intent' = "refund"]_vars

\* C8: when the language model asks for get_customer_info while a session email
\* is set, the lookup succeeds and the sticky intent is refund or escalate, the
\* same turn dispatches escalate_to_billing after the lookup, its reason the
\* utterance that set the intent, and answers with exactly the message of the
\* escalation's result
C8_LookupChainsIntoEscalation ==
    [][(/\ event' = "processed"
        /\ llm_calls' > 0
        /\ ~llm_reply'.raises
        /\ Get(FindFunctionCall(llm_reply'), "function", None) = "get_customer_info"
        /\ Truthy(customer_email')
        /\ Len(dispatched') >= 1
        /\ dispatched'[1].function = "get_customer_info"
        /\ Get(dispatched'[1].result, "success", FALSE)
        /\ last_intent' \in {"refund", "escalate"})
       => /\ Len(dispatched') = 2
          /\ dispatched'[2].function = "escalate_to_billing"
          /\ dispatched'[2].arguments.reason = last_intent_details'
          /\ response_text' = Get(dispatched'[2].result, "message", None)]_vars

\* C9: every processed utterance, those whose language model call or ticketing
\* operation fails included, yields one non-empty response that is handed to
\* text-to-speech, and its user turn and assistant turn are in the history
C9_EveryTurnSpeaksOneSentence ==
    event = "processed" =>
        /\ Truthy(response_text)
        /\ tts_requests = <<response_text>>
        /\ \E i \in DOMAIN conversation_history :
              conversation_history[i] = Message("user", utterance_seq, IsText)
        /\ \E i \in DOMAIN conversation_history :
              conversation_history[i] = Message("assistant", utterance_seq, response_text)

\* C10: when an escalate_to_billing dispatched during a turn, asked for by the
\* language model or chained after a lookup, returns an error result, the
\* response is the apology template with that result's error; the failure is
\* never told as a success
C10_FailedEscalationApologises ==
    event = "processed" =>
        \A i \in DOMAIN dispatched :
            (/\ dispatched[i].function = "escalate_to_billing"
             /\ ~Get(dispatched[i].result, "success", FALSE))
            => response_text =
                  Apology(Get(dispatched[i].result, "error", "Unknown error occurred"))

\* C11: when the call of the language model in process_with_function_calling
\* raises, the response is the fixed trouble sentence, nothing is dispatched,
\* the session email is what the utterance's own extraction left, the customer
\* record and the pending confirmation are as before the turn, and the user
\* turn and the assistant turn of the utterance are in the history
C11_LLMFailureApologises ==
    [][(event' = "processed" /\ llm_calls' > 0 /\ llm_reply'.raises)
       => /\ response_text' = MsgLLMTrouble
          /\ dispatched' = <<>>
          /\ customer_email' =
                TrackEmail(Session, ReadingOf[transcript'].extracted_email).customer_email
          /\ customer_data' = customer_data
          /\ pending_ticket_request' = pending_ticket_request
          /\ email_confirmation_pending' = email_confirmation_pending
          /\ zd' = zd
          /\ \E i, j \in DOMAIN conversation_history' :
                /\ i < j
                /\ conversation_history'[i] = Message("user", utterance_seq', IsText)
                /\ conversation_history'[j] =
                      Message("assistant", utterance_seq', MsgLLMTrouble)]_vars

\* a turn whose call of the language model raised while a session email and a
\* customer record were known
C11_LLMRaisedWithCustomerKnown ==
    /\ event = "processed"
    /\ llm_calls > 0
    /\ llm_reply.raises
    /\ response_text = MsgLLMTrouble
    /\ dispatched = <<>>
    /\ customer_email = KnownEmail
    /\ TruthyDict(customer_data)

\* C12: a step that forwards an utterance forwards the buffered final segments
\* joined by single spaces and trimmed, and leaves transcript_buffer empty; an
\* UtteranceEnd that forwards none leaves the buffer empty as well; an
\* UtteranceEnd that finds the buffer empty forwards nothing, calls nothing and
\* changes nothing
C12_UtteranceIsJoinedSegments ==
    [][/\ utterance_seq' # utterance_seq
            => /\ event' = "processed"
               /\ transcript' = Strip(JoinSpace(transcript_buffer))
               /\ transcript' # <<>>
               /\ transcript_buffer' = <<>>
       /\ (/\ utterance_seq' = utterance_seq
           /\ event' # "final_segment"
           /\ UNCHANGED audio_vars
           /\ UtteranceEnd)
            => /\ transcript_buffer' = <<>>
               /\ transcript' = <<>>
       /\ (transcript_buffer = <<>> /\ UtteranceEnd)
            => /\ event' = "nothing_buffered"
               /\ transcript' = <<>>
               /\ llm_calls' = 0
               /\ dispatched' = <<>>
               /\ tts_requests' = <<>>
               /\ UNCHANGED <<session_vars, audio_vars, utterance_seq>>]_vars

\* an utterance of two final segments, the second ending in a space, forwarded
\* as one trimmed text
C12_TwoSegmentsForwarded ==
    /\ event = "processed"
    /\ transcript = Strip(JoinSpace(SayCancelOrder))
    /\ Len(transcript) = Len(SayCancelOrder[1]) + Len(SayCancelOrder[2])
    /\ transcript_buffer = <<>>

\* C13: an UtteranceEnd handled while the speaking flag is set forwards nothing:
\* the buffer is emptied, the language model, the dispatcher and text-to-speech
\* are not called, the session is as before, and an utterance forwarded later
\* is made of the segments buffered after the drop only
C13_UtteranceDroppedWhileSpeaking ==
    [][/\ (is_speaking /\ UtteranceEnd)
            => /\ transcript_buffer' = <<>>
               /\ event' # "processed"
               /\ transcript' = <<>>
               /\ llm_calls' = 0
               /\ dispatched' = <<>>
               /\ tts_requests' = <<>>
               /\ UNCHANGED <<session_vars, utterance_seq>>
       /\ (event = "ignored_while_speaking" /\ event' = "final_segment")
            => Len(transcript_buffer') = 1]_vars

\* an utterance dropped while the response to an earlier one was being played
C13_DroppedWhileSpeaking ==
    /\ event = "ignored_while_speaking"
    /\ is_speaking
    /\ utterance_seq >= 1
    /\ transcript_buffer = <<>>

C15_SuccessfulLookupSetsCustomerData ==
    event = "processed" =>
        \A i \in DOMAIN dispatched :
            (/\ dispatched[i].function = "get_customer_info"
             /\ Get(dispatched[i].result, "success", FALSE))
            => customer_data = dispatched[i].result.customer

\* C16: customer_data is None at the start, and a step that leaves it holding
\* a record it did not hold before is a turn in which a get_customer_info
\* dispatch succeeded and returned that record
C16_CustomerDataOnlyAfterLookup ==
    /\ customer_data = NoneDict
    /\ [][(customer_data' # customer_data /\ customer_data' # NoneDict)
          => \E i \in DOMAIN dispatched' :
                /\ dispatched'[i].function = "get_customer_info"
                /\ Get(dispatched'[i].result, "success", FALSE)
                /\ dispatched'[i].result.customer = customer_data']_vars

\* a customer record stored by the turn whose lookup returned it
C16_CustomerDataStored ==
    /\ event = "processed"
    /\ TruthyDict(customer_data)
    /\ \E i \in DOMAIN dispatched :
          /\ dispatched[i].function = "get_customer_info"
          /\ Get(dispatched[i].result, "success", FALSE)
          /\ dispatched[i].result.customer = customer_data

\* C17: a turn in which get_customer_info succeeds for the address of the
\* latest successful lookup of the session, returning the same record, with
\* no denial since, leaves customer_data as the turn of that lookup left it
C17_SecondLookupKeepsCustomerData ==
    [][(/\ event' = "processed"
        /\ last_lookup # NoneDict
        /\ last_lookup' # NoneDict
        /\ \E i \in DOMAIN dispatched' :
              /\ dispatched'[i].function = "get_customer_info"
              /\ Get(dispatched'[i].result, "success", FALSE)
              /\ Get(dispatched'[i].arguments, "email", None) = last_lookup.email
              /\ dispatched'[i].result.customer = last_lookup.customer)
       => customer_data' = last_lookup.customer_data]_vars

\* C18: extract_email_from_text applied to a text that holds an address in
\* spoken form, the at sign said as " at " and the dot as " dot ", returns the
\* written address: "@" and "." in place of the spoken words and no whitespace;
\* applied to a text that matches none of the three patterns it returns None
C18_SpokenAddressIsNormalised ==
    event = "extracted" =>
        /\ \A prefix \in ExtractPrefixes, local \in ExtractLocals,
              domain \in ExtractDomains, tld \in ExtractTlds :
              transcript = Compose(prefix, local.said, SpokenAt, domain, SpokenDot, tld)
                  => /\ customer_email =
                           Str(local.written \o <<"@">> \o domain \o <<".">> \o tld)
                     /\ Contains(<<"@">>, extract_email_from_text(transcript))
        /\ transcript \in PlainTexts => customer_email = None

\* C19: while a confirmation is pending, every utterance is answered by the
\* confirmation branch alone: the language model is not called, nothing but
\* confirm_email_and_create_ticket is dispatched, and the response is that
\* dispatch's sentence, the request for the correct email or the yes/no
\* re-prompt, never a greeting, the request for an email or a model's answer
C19_PendingConfirmationShortCircuits ==
    [][(/\ email_confirmation_pending
        /\ TruthyDict(pending_ticket_request)
        /\ event' = "processed")
       => /\ llm_calls' = 0
          /\ llm_reply' = NoReply
          /\ Len(dispatched') <= 1
          /\ \A i \in DOMAIN dispatched' :
                dispatched'[i].function = "confirm_email_and_create_ticket"
          /\ IF dispatched' # <<>>
             THEN response_text' =
                    IF Get(dispatched'[1].result, "success", FALSE)
                    THEN Get(dispatched'[1].result, "message", MsgSubmitted)
                    ELSE Apology(Get(dispatched'[1].result, "error", "Unknown error"))
             ELSE response_text' \in {MsgAskCorrectEmail, MsgRepromptYesNo}]_vars

\* a greeting heard while a confirmation was pending, answered with the re-prompt
C19_GreetingWhilePending ==
    /\ event = "processed"
    /\ transcript = Strip(JoinSpace(SayHello))
    /\ email_confirmation_pending
    /\ TruthyDict(pending_ticket_request)
    /\ response_text = MsgRepromptYesNo
    /\ llm_calls = 0
    /\ dispatched = <<>>

C21_CallWithoutEmailAsksForEmail ==
    [][(/\ event' = "processed"
        /\ llm_calls' > 0
        /\ ~llm_reply'.raises
        /\ Get(FindFunctionCall(llm_reply'), "function", None) = "create_support_ticket"
        /\ ~Truthy(Get(Get(FindFunctionCall(llm_reply'), "arguments", <<>>), "email", None)))
       => /\ dispatched' = <<>>
          /\ zd' = zd
          /\ response_text' = MsgAskEmail
          /\ ~email_confirmation_pending'
          /\ pending_ticket_request' = NoneDict]_vars

\* C22: a turn whose reply from the language model is a create_support_ticket
\* call with an email, a subject and a description, for a customer the backend
\* knows, dispatches create_support_ticket with these arguments, and when the
\* dispatch succeeds the response is "Perfect! <message> Our team will review
\* your request and get back to you soon."
C22_TicketForKnownCustomerIsDispatched ==
    [][(/\ event' = "processed"
        /\ llm_calls' > 0
        /\ ~llm_reply'.raises
        /\ Get(FindFunctionCall(llm_reply'), "function", None) = "create_support_ticket"
        /\ {"email", "subject", "description"}
              \subseteq DOMAIN Get(FindFunctionCall(llm_reply'), "arguments", <<>>)
        /\ \E u \in zd.users : u.email = FindFunctionCall(llm_reply').arguments.email)
       => /\ Len(dispatched') = 1
          /\ dispatched'[1].function = "create_support_ticket"
          /\ dispatched'[1].arguments = FindFunctionCall(llm_reply').arguments
          /\ Get(dispatched'[1].result, "success", FALSE)
                => response_text' =
                      "Perfect! " \o Fmt(Get(dispatched'[1].result, "message", None))
                         \o " Our team will review your request and get back to you soon."]_vars

\* C23: a turn whose reply from the language model is an escalate_to_billing
\* call, made while a session email is set, first dispatches get_customer_info
\* for the session email; when that lookup succeeds escalate_to_billing is
\* dispatched next with the arguments of the call, and when it fails nothing
\* else is dispatched, the backend is left as it was and the response asks for
\* the correct email address
C23_EscalationAfterLookup ==
    [][(/\ event' = "processed"
        /\ llm_calls' > 0
        /\ ~llm_reply'.raises
        /\ Get(FindFunctionCall(llm_reply'), "function", None) = "escalate_to_billing"
        /\ Get(FindFunctionCall(llm_reply'), "arguments", <<>>) # <<>>
        /\ Truthy(customer_email'))
       => /\ Len(dispatched') >= 1
          /\ dispatched'[1].function = "get_customer_info"
          /\ dispatched'[1].arguments = [email |-> customer_email']
          /\ IF Get(dispatched'[1].result, "success", FALSE)
             THEN /\ Len(dispatched') = 2
                  /\ dispatched'[2].function = "escalate_to_billing"
                  /\ dispatched'[2].arguments = FindFunctionCall(llm_reply').arguments
             ELSE /\ Len(dispatched') = 1
                  /\ zd' = zd
                  /\ response_text' =
                        MsgNoAccount(customer_email', "escalate your request")]_vars

\* a turn that was asked to escalate while a session email was set, whose
\* lookup failed and which dispatched nothing else
C23_EscalationRefused ==
    /\ event = "processed"
    /\ llm_calls > 0
    /\ ~llm_reply.raises
    /\ Get(FindFunctionCall(llm_reply), "function", None) = "escalate_to_billing"
    /\ Truthy(customer_email)
    /\ Len(dispatched) = 1
    /\ dispatched[1].function = "get_customer_info"
    /\ ~Get(dispatched[1].result, "success", FALSE)
    /\ response_text = MsgNoAccount(customer_email, "escalate your request")

\* C24: whenever the speaking flag goes from set to clear, the audio queue is
\* empty and the playback buffer holds fewer samples than the low-watermark
\* of 512
C24_FlagClearedOnlyWhenDrained ==
    [][(is_speaking /\ ~is_speaking')
       => (audio_queue = 0 /\ audio_buffer < DrainedBuffer)]_vars

\* C25: a transcript event is handled, and the session, the buffer of
\* segments and the count of forwarded utterances change, only while no
\* earlier turn is still between its forwarding and the end of its hand-off to
\* text-to-speech; and a forwarding step forwards one utterance, the joined
\* buffer, and leaves the buffer empty
C25_OneTurnAtATime ==
    [][/\ (\/ transcript_buffer' # transcript_buffer
           \/ session_vars' # session_vars
           \/ utterance_seq' # utterance_seq)
          => speaker_pc = "idle"
       /\ utterance_seq' # utterance_seq
          => /\ utterance_seq' = utterance_seq + 1
             /\ transcript_buffer # <<>>
             /\ transcript' = FullTranscript(transcript_buffer)
             /\ transcript_buffer' = <<>>]_vars

\* the second utterance has been forwarded and its response is being handed
\* to text-to-speech
C25_SecondTurnSpeaking ==
    /\ utterance_seq = 2
    /\ event = "processed"
    /\ speaker_pc = "post"
    /\ is_speaking

\* the statements of main() and of stt_keepalive that read or write ws_stt:
\* lines 1464, 1472, 1480, 1481 and lines 1362, 1364
MainAccess == {"assign", "run", "check", "close"}
KeepaliveAccess == {"check", "ping"}

\* C26: every statement of main() and of stt_keepalive that reads or writes
\* ws_stt is executed while its thread holds stt_lock
C26_HandleOnlyUnderLock ==
    [][/\ (main_pc' # main_pc /\ main_pc \in MainAccess) => stt_lock = "main"
       /\ (keepalive_pc' # keepalive_pc /\ keepalive_pc \in KeepaliveAccess)
             => stt_lock = "keepalive"]_vars

\* C27: no text submitted to the text-to-speech service is longer than 500
\* characters
C27_SubmittedTextWithinLimit ==
    \A i \in DOMAIN tts_requests : Len(tts_requests[i]) <= TTSLimit

\* C28: a ticket that a search of one kind returns is returned by the search
\* of no other kind for the same customer on the same backend
C28_TicketUnderOneSearchKind ==
    (event = "dispatched" /\ dispatched[1].function = "search_customer_tickets")
       => \A tk \in Returned(dispatched[1].result) :
             \A kind \in SearchKinds \ {dispatched[1].arguments.search_type} :
                tk \notin Returned(ExecSearchCustomerTickets(
                                      [email |-> KnownEmail, search_type |-> kind],
                                      zd, {}).result)

\* C29: create_support_ticket and escalate_to_billing, dispatched for a
\* customer who has an open ticket, create no ticket, and when they succeed
\* they have added one non-public comment to one of the tickets that existed
\* and nothing else; they create a ticket only for a customer with no open
\* ticket
C29_NoTicketBesideAnOpenOne ==
    [][(/\ event' = "dispatched"
        /\ dispatched'[1].function \in {"create_support_ticket", "escalate_to_billing"})
       => IF \E i \in DOMAIN zd.tickets :
                zd.tickets[i].requester = dispatched'[1].arguments.email
          THEN /\ Len(zd'.tickets) = Len(zd.tickets)
               /\ Get(dispatched'[1].result, "success", FALSE)
                     => \E i \in DOMAIN zd.tickets :
                           /\ Len(zd'.tickets[i].comments) = Len(zd.tickets[i].comments) + 1
                           /\ ~zd'.tickets[i].comments[Len(zd'.tickets[i].comments)].public
                           /\ \A j \in DOMAIN zd.tickets \ {i} : zd'.tickets[j] = zd.tickets[j]
          ELSE Len(zd'.tickets) <= Len(zd.tickets) + 1]_vars

\* C30: after the turn of every forwarded utterance last_intent is "refund"
\* when the utterance holds a refund keyword, otherwise "escalate" when it
\* holds an escalate keyword, otherwise "support" when it holds a support
\* keyword, and last_intent_details is then the utterance; when it holds none
\* of these keywords both are what they were before the turn
C30_StickyIntentByPriority ==
    [][utterance_seq' # utterance_seq
       => IF ReadingOf[transcript'].refund
          THEN last_intent' = "refund" /\ last_intent_details' = transcript'
          ELSE IF ReadingOf[transcript'].escalate
          THEN last_intent' = "escalate" /\ last_intent_details' = transcript'
          ELSE IF ReadingOf[transcript'].support
          THEN last_intent' = "support" /\ last_intent_details' = transcript'
          ELSE /\ last_intent' = last_intent
               /\ last_intent_details' = last_intent_details]_vars

\* a turn, not the first of the conversation, whose utterance held a refund
\* and a support keyword and left the intent at refund
C30_RefundBeforeSupport ==
    /\ event = "processed"
    /\ ReadingOf[transcript].refund
    /\ ReadingOf[transcript].support
    /\ last_intent = "refund"
    /\ last_intent_details = transcript
    /\ utterance_seq > 1

LastShown(items) == items[Min({3, Len(items)})]

\* C33: after a turn in which search_customer_tickets surfaced tickets, orders
\* or appointments, the session's last_ticket, last_order or last_appointment
\* is the last record the answer mentioned.
C33_LastReferencedItemKept ==
    [][utterance_seq' # utterance_seq =>
          \A i \in DOMAIN dispatched' :
             (/\ dispatched'[i].function = "search_customer_tickets"
              /\ Get(dispatched'[i].result, "success", FALSE))
             => /\ Get(dispatched'[i].result, "appointments", <<>>) # <<>>
                   => last_appointment' = LastShown(dispatched'[i].result.appointments)
                /\ Get(dispatched'[i].result, "orders", <<>>) # <<>>
                   => last_order' = LastShown(dispatched'[i].result.orders)
                /\ Get(dispatched'[i].result, "tickets", <<>>) # <<>>
                   => last_ticket' = LastShown(dispatched'[i].result.tickets)]_vars

\* C34: a reply of the language model that holds a JSON object with a function
\* key is handled as a call of that function, whatever its arguments, and is
\* not spoken as it stands; any other reply is returned whole as the answer
\* and nothing is dispatched.
C34_CallOrDirectAnswer ==
    [][(/\ utterance_seq' # utterance_seq
        /\ llm_reply' # NoReply
        /\ ~llm_reply'.raises)
       => IF FindFunctionCall(llm_reply') # NoneDict
          THEN response_text' # ResponseText(llm_reply')
          ELSE /\ response_text' = ResponseText(llm_reply')
               /\ dispatched' = <<>>]_vars

\* C35: between turns the two fields of the pending confirmation agree:
\* email_confirmation_pending is set exactly when pending_ticket_request holds
\* a request.
C35_PendingFieldsAgree ==
    email_confirmation_pending <=> pending_ticket_request # NoneDict

\* a turn that asked again, the request and the flag both kept
C35_StillPendingAfterReprompt ==
    /\ event = "processed"
    /\ response_text = MsgRepromptYesNo
    /\ email_confirmation_pending
    /\ pending_ticket_request \in PendingRequests

C40_FailedConfirmationLeavesBackend ==
    [][utterance_seq' # utterance_seq =>
          \A i \in DOMAIN dispatched' :
             (/\ dispatched'[i].function = "confirm_email_and_create_ticket"
              /\ ~Get(dispatched'[i].result, "success", FALSE))
             => zd' = zd]_vars

C38_OnlyPlaybackTakesChunks ==
    [][audio_queue' < audio_queue =>
          /\ playback_pc = "get"
          /\ playback_pc' = "got"
          /\ audio_queue' = audio_queue - 1]_vars

\* C39: between turns, when the session email and the customer record are both
\* set, the record is the one of the session email.
C39_IdentityMatchesEmail ==
    (customer_data # NoneDict /\ customer_email # None)
        => customer_data.email = customer_email

====
